---- MODULE Spec2Model ----
(***************************************************************************)
(* Model of the fantasy football data pipeline (src/data): the            *)
(* aggregation and derived-scoring engine (processors), team identity     *)
(* (scrapers/constants.py), data validation (validators) and the          *)
(* orchestration of a run (pipeline.py).                                   *)
(*                                                                         *)
(* Numbers.  Python floats are modelled as exact fixed-point integers in   *)
(* thousandths: 1.0 is 1000, 0.5 is 500.  Source weights and the risk      *)
(* tables are kept in tenths (1.2 is 12).  round(x, n) is round-half-even  *)
(* on the exact quotient; the inputs are chosen so that no quotient is an   *)
(* exact decimal tie, where the binary quotient may fall on either side.   *)
(* Optional values are <<>> (None) or <<v>>.                               *)
(***************************************************************************)
EXTENDS Integers, Sequences, FiniteSets, TLC

VARIABLES
    projections_by_source,  \* aggregate_projections: ordered map source -> list
    adp_data,               \* aggregate_projections: list of ADPData
    risk_profiles,          \* aggregate_projections: Optional map key -> RiskProfile
    schedule_scores,        \* aggregate_projections: Optional map team -> ScheduleScore
    enhanced_players,       \* outcome of aggregate_projections
    wa_call,                \* weighted_average: [values, result]
    injury_call,            \* calculate_injury_score: arguments and result
    consistency_call,       \* calculate_consistency_score: arguments and result
    floor_ceiling_call,     \* calculate_floor_ceiling: arguments and result
    risk_profile_call,      \* create_risk_profile: arguments and result
    matchup_call,           \* matchup_rating: arguments and result
    sos_call,               \* calculate_sos: arguments and result
    playoff_sos_call,       \* calculate_playoff_sos: arguments and result
    schedule_score_call,    \* create_schedule_score: arguments and result
    adjustment_call,        \* ScheduleScore.get_schedule_adjustment: self and result
    team_call,              \* normalize_team: argument and outcome
    validation_call,        \* validate_projections / validate_adp: arguments and result
    run_args,               \* DataPipeline.run: [validate, strict]
    scrape_outcomes,        \* what scrape() of each scraper does in this run
    pc,                     \* DataPipeline.run: the step it is at
    source_index,           \* DataPipeline.run: position of the scraper / validation loop
    output_file,            \* the exported JSON file: None or Some(players)
    run_result,             \* outcome of DataPipeline.run
    key_call,               \* create_player_key in an adapter: display name, keys derived
    adp_pages,              \* FantasyPros: the rows of the three ADP pages
    scraper,                \* scrape(): the scraper, its config and its pages
    attempt,                \* scrape(): the loop variable of the retry loop
    scrape_pc,              \* scrape(): the step it is at
    page_index,             \* scrape(): the page the attempt is at
    driver,                 \* scrape(): self._driver, None or Some(driver)
    open_drivers,           \* the browser drivers created and not yet quit
    scraped,                \* scrape(): the local list (or dict) of records
    attempt_log,            \* how each attempt made so far ended
    scrape_result           \* outcome of scrape()

vars == <<projections_by_source, adp_data, risk_profiles, schedule_scores,
          enhanced_players, wa_call, injury_call, consistency_call,
          floor_ceiling_call, risk_profile_call, matchup_call, sos_call,
          playoff_sos_call, schedule_score_call, adjustment_call, team_call,
          validation_call, run_args, scrape_outcomes, pc, source_index, output_file,
          run_result, key_call, adp_pages, scraper, attempt, scrape_pc, page_index,
          driver, open_drivers, scraped, attempt_log, scrape_result>>

\* The calls of the risk profile builder.
profile_vars == <<floor_ceiling_call, risk_profile_call>>

\* The calls of the schedule analyzer.
schedule_vars == <<matchup_call, sos_call, playoff_sos_call, schedule_score_call,
                   adjustment_call>>

\* The state of DataPipeline.run beside the arguments of aggregate_projections.
pipeline_vars == <<run_args, scrape_outcomes, pc, source_index, output_file, run_result>>

\* The state of one scrape() call.
scrape_vars == <<scraper, attempt, scrape_pc, page_index, driver, open_drivers, scraped,
                 attempt_log, scrape_result>>

\* The scrapers: key derivation, the ADP pages and the scrape() call.
scraper_vars == <<key_call, adp_pages, scrape_vars>>

\* The validator call, the pipeline and the scrapers.
late_vars == <<validation_call, pipeline_vars, scraper_vars>>

\* Every variable outside the aggregator and the three scoring calls.
ext_vars == <<profile_vars, schedule_vars, team_call, late_vars>>

agg_vars == <<projections_by_source, adp_data, risk_profiles, schedule_scores,
              enhanced_players>>

----------------------------------------------------------------------------
(* Python values *)

None == <<>>

Some(v) == <<v>>

\* Outcome of a call: not yet made, returned a value, or raised.
Pending == [status |-> "pending"]

Returned(v) == [status |-> "returned", value |-> v]

Raised(e) == [status |-> "raised", error |-> e]

\* Truth value of an Optional dict: None and {} are both falsy.
Truthy(m) == m # None /\ DOMAIN m[1] # {}

\* Nearest integer to num/den (den > 0), ties to the even integer.
RoundHalfEven(num, den) ==
    LET q == num \div den
        r == num % den
    IN  IF 2 * r < den THEN q
        ELSE IF 2 * r > den THEN q + 1
        ELSE IF q % 2 = 0 THEN q ELSE q + 1

\* round(num/den, 2) of a quantity in thousandths: a multiple of 10.
Round2(num, den) == 10 * RoundHalfEven(num, 10 * den)

\* round(num/den, 1) of a quantity in thousandths: a multiple of 100.
Round1(num, den) == 100 * RoundHalfEven(num, 100 * den)

----------------------------------------------------------------------------
(* scrapers/base.py, scrapers/fantasypros.py, processors/*.py: records *)

stat_fields ==
    <<"pass_yds", "pass_tds", "pass_ints",
      "rush_yds", "rush_tds",
      "receptions", "rec_yds", "rec_tds",
      "fumbles", "two_pts",
      "kick_0_19", "kick_20_29", "kick_30_39", "kick_40_49", "kick_50", "kick_xp",
      "dst_sacks", "dst_ints", "dst_fumbles", "dst_tds", "dst_safeties",
      "dst_pa_per_game">>

advanced_fields ==
    <<"target_share", "snap_pct", "red_zone_targets",
      "red_zone_carries", "air_yards", "yards_after_contact">>

Range(s) == {s[i] : i \in DOMAIN s}

StatDefaults == [f \in Range(stat_fields) |-> 0]

AdvancedDefaults == [f \in Range(advanced_fields) |-> None]

\* PlayerProjection(key, name, pos, team, **overrides)
PlayerProjection(key, name, pos, team, overrides) ==
    overrides @@ [key |-> key, name |-> name, pos |-> pos, team |-> team]
              @@ StatDefaults @@ AdvancedDefaults

ADPData(key, bye, std, half_ppr, ppr) ==
    [key |-> key, bye |-> bye, std |-> std, half_ppr |-> half_ppr, ppr |-> ppr]

RiskProfile(injury_score, consistency_score, floor, ceiling, weekly_variance) ==
    [injury_score |-> injury_score, consistency_score |-> consistency_score,
     floor |-> floor, ceiling |-> ceiling, weekly_variance |-> weekly_variance]

ScheduleScore(team, sos_overall, sos_playoffs) ==
    [team |-> team, sos_overall |-> sos_overall, sos_playoffs |-> sos_playoffs]

get_schedule_adjustment_NotInverted(self) ==
    Round1(6 * self.sos_overall + 9 * self.sos_playoffs, 1)

\* combined = 0.4*overall + 0.6*playoffs; round(-combined * 15, 1)
get_schedule_adjustment(self) ==
    Round1(-(6 * self.sos_overall + 9 * self.sos_playoffs), 1)

\* EnhancedPlayer(key, name, pos, team, bye, adp_std, adp_half_ppr, adp_ppr)
\* with the dataclass defaults for every other field.
EnhancedPlayer(key, name, pos, team, bye, adp_std, adp_half_ppr, adp_ppr) ==
    [key |-> key, name |-> name, pos |-> pos, team |-> team, bye |-> bye,
     adp_std |-> adp_std, adp_half_ppr |-> adp_half_ppr, adp_ppr |-> adp_ppr,
     injury_score |-> 30, consistency_score |-> 500,
     floor |-> 0, ceiling |-> 0, weekly_variance |-> 0,
     sos_overall |-> 0, sos_playoffs |-> 0, schedule_adjustment |-> 0]
    @@ StatDefaults @@ AdvancedDefaults

\* Source reliability weights, in tenths.
SOURCE_WEIGHTS == [FantasyPros |-> 12, ESPN |-> 10, CBS |-> 9, NFL |-> 8]

\* SOURCE_WEIGHTS.get(source, 1.0)
SourceWeight(source) ==
    IF source \in DOMAIN SOURCE_WEIGHTS THEN SOURCE_WEIGHTS[source] ELSE 10

----------------------------------------------------------------------------
(* processors/aggregator.py: weighted_average *)

TotalWeight_Count(values) == 10 * Len(values)

RECURSIVE TotalWeight(_)
\* sum(w for _, w in values if w > 0)
TotalWeight(values) ==
    IF values = <<>> THEN 0
    ELSE (IF Head(values)[2] > 0 THEN Head(values)[2] ELSE 0)
         + TotalWeight(Tail(values))

RECURSIVE WeightedSum(_)
\* sum(v * w for v, w in values if w > 0)
WeightedSum(values) ==
    IF values = <<>> THEN 0
    ELSE (IF Head(values)[2] > 0 THEN Head(values)[1] * Head(values)[2] ELSE 0)
         + WeightedSum(Tail(values))

\* values: sequence of <<value (thousandths), weight (tenths)>>
weighted_average(values) ==
    IF values = <<>> THEN 0
    ELSE LET total_weight == TotalWeight(values)
         IN  IF total_weight = 0 THEN 0
             ELSE Round2(WeightedSum(values), total_weight)

\* The exact quotient lies halfway between two values of two decimals.
IsDecimalTie(num, den) == den > 0 /\ (2 * num) % (20 * den) = 10 * den

\* round(num/den, 2) as binary floating point computes it: off a tie the
\* nearest value of two decimals; at a tie the binary quotient falls below
\* or above the halfway point, `up` telling which.
Round2Binary_Loose(num, den, up) ==
    10 * (num \div (10 * den)) + (IF up THEN 10 ELSE 0)

Round2Binary(num, den, up) ==
    IF IsDecimalTie(num, den)
    THEN 10 * (num \div (10 * den)) + (IF up THEN 10 ELSE 0)
    ELSE Round2(num, den)

\* weighted_average in binary floating point: the sums are accumulated in
\* list order, so the side on which a tie falls depends on that order.
weighted_average_float(values, up) ==
    IF values = <<>> THEN 0
    ELSE LET total_weight == TotalWeight(values)
         IN  IF total_weight = 0 THEN 0
             ELSE Round2Binary(WeightedSum(values), total_weight, up)

----------------------------------------------------------------------------
(* processors/aggregator.py: aggregate_projections *)

\* adp_lookup = {adp.key: adp for adp in adp_data}; adp_lookup.get(key).
\* A later record of the same key replaces an earlier one.
AdpGet(adp_list, key) ==
    LET idx == {i \in DOMAIN adp_list : adp_list[i].key = key}
    IN  IF idx = {} THEN None
        ELSE Some(adp_list[CHOOSE i \in idx : \A j \in idx : j <= i])

RECURSIVE FlattenSources(_)
\* The (source, proj) pairs in the order the two nested loops visit them.
FlattenSources(pbs) ==
    IF pbs = <<>> THEN <<>>
    ELSE [i \in 1..Len(Head(pbs).projs) |-> <<Head(pbs).source, Head(pbs).projs[i]>>]
         \o FlattenSources(Tail(pbs))

GroupIndexOf_Never(groups, key) == {}

\* `proj.key not in player_projections`: the positions of the key's group.
GroupIndexOf(groups, key) == {i \in DOMAIN groups : groups[i].key = key}

RECURSIVE GroupPairs(_, _)
\* player_projections, as the sequence of its items in insertion order.
GroupPairs(pairs, groups) ==
    IF pairs = <<>> THEN groups
    ELSE LET pair == Head(pairs)
             key == pair[2].key
             idx == GroupIndexOf(groups, key)
         IN  GroupPairs(Tail(pairs),
                 IF idx = {}
                 THEN Append(groups, [key |-> key, source_projs |-> <<pair>>])
                 ELSE [groups EXCEPT ![CHOOSE i \in idx : TRUE].source_projs =
                                          Append(@, pair)])

FirstProj_Last(source_projs) == source_projs[Len(source_projs)][2]

\* _, first_proj = source_projs[0]
FirstProj(source_projs) == source_projs[1][2]

Qualifies_NonNegative(value) == value >= 0

\* if value > 0
Qualifies(value) == value > 0

RECURSIVE StatValues(_, _)
\* The (value, weight) pairs collected for one stat field.
StatValues(source_projs, field_name) ==
    IF source_projs = <<>> THEN <<>>
    ELSE LET source == Head(source_projs)[1]
             value == Head(source_projs)[2][field_name]
             weight == SourceWeight(source)
         IN  (IF Qualifies(value) THEN <<(<<value, weight>>)>> ELSE <<>>)
             \o StatValues(Tail(source_projs), field_name)

RECURSIVE AggregateStats(_, _, _)
\* for field_name in stat_fields: ... setattr(player, field_name, ...)
AggregateStats(player, source_projs, n) ==
    IF n > Len(stat_fields) THEN player
    ELSE LET field_name == stat_fields[n]
             values == StatValues(source_projs, field_name)
         IN  AggregateStats(
                 IF values # <<>>
                 THEN [player EXCEPT ![field_name] = weighted_average(values)]
                 ELSE player,
                 source_projs, n + 1)

RECURSIVE FirstNonNone_Truthy(_, _)
FirstNonNone_Truthy(source_projs, field_name) ==
    IF source_projs = <<>> THEN None
    ELSE IF Head(source_projs)[2][field_name] \notin {None, Some(0)}
         THEN Head(source_projs)[2][field_name]
         ELSE FirstNonNone_Truthy(Tail(source_projs), field_name)

RECURSIVE FirstNonNone(_, _)
\* The first value of the field that is not None, or None.
FirstNonNone(source_projs, field_name) ==
    IF source_projs = <<>> THEN None
    ELSE IF Head(source_projs)[2][field_name] # None
         THEN Head(source_projs)[2][field_name]
         ELSE FirstNonNone(Tail(source_projs), field_name)

RECURSIVE AggregateAdvanced(_, _, _)
\* for field_name in advanced_fields: take first non-None
AggregateAdvanced(player, source_projs, n) ==
    IF n > Len(advanced_fields) THEN player
    ELSE LET field_name == advanced_fields[n]
             value == FirstNonNone(source_projs, field_name)
         IN  AggregateAdvanced(
                 IF value # None THEN [player EXCEPT ![field_name] = value]
                 ELSE player,
                 source_projs, n + 1)

\* `key in mapping`: TypeError when the mapping is None.
DictContains(mapping, key) ==
    IF mapping = None THEN Raised("TypeError")
    ELSE Returned(key \in DOMAIN mapping[1])

Applies_Unguarded(mapping, key) == DictContains(mapping, key)

\* `mapping and key in mapping` (short-circuit).
Applies(mapping, key) ==
    IF ~Truthy(mapping) THEN Returned(FALSE) ELSE DictContains(mapping, key)

ApplyRisk_NoCeiling(player, risk) ==
    [player EXCEPT !.injury_score = risk.injury_score,
                   !.consistency_score = risk.consistency_score,
                   !.floor = risk.floor,
                   !.weekly_variance = risk.weekly_variance]

\* player.injury_score = risk.injury_score ... (lines 191-196)
ApplyRisk(player, risk) ==
    [player EXCEPT !.injury_score = risk.injury_score,
                   !.consistency_score = risk.consistency_score,
                   !.floor = risk.floor,
                   !.ceiling = risk.ceiling,
                   !.weekly_variance = risk.weekly_variance]

\* player.sos_overall = schedule.sos_overall ... (lines 200-203)
ApplySchedule(player, schedule) ==
    [player EXCEPT !.sos_overall = schedule.sos_overall,
                   !.sos_playoffs = schedule.sos_playoffs,
                   !.schedule_adjustment = get_schedule_adjustment(schedule)]

\* The body of `for key, source_projs in player_projections.items()` for a
\* key that has ADP data: the outcome is the player appended, or an exception.
BuildPlayer(key, source_projs, adp, risk, schedules) ==
    LET first_proj == FirstProj(source_projs)
        player0 == EnhancedPlayer(key, first_proj.name, first_proj.pos,
                                  first_proj.team, adp.bye, adp.std,
                                  adp.half_ppr, adp.ppr)
        player1 == AggregateStats(player0, source_projs, 1)
        player2 == AggregateAdvanced(player1, source_projs, 1)
        has_risk == Applies(risk, key)
    IN  IF has_risk.status = "raised" THEN has_risk
        ELSE LET player3 == IF has_risk.value
                            THEN ApplyRisk(player2, risk[1][key]) ELSE player2
                 has_sched == Applies(schedules, first_proj.team)
             IN  IF has_sched.status = "raised" THEN has_sched
                 ELSE Returned(IF has_sched.value
                               THEN ApplySchedule(player3, schedules[1][first_proj.team])
                               ELSE player3)

RECURSIVE BuildPlayers(_, _, _, _, _)
\* The loop over player_projections.items(): enhanced_players before the sort.
BuildPlayers(groups, adp_list, risk, schedules, acc) ==
    IF groups = <<>> THEN Returned(acc)
    ELSE LET key == Head(groups).key
             adp == AdpGet(adp_list, key)
         IN  IF adp = None
             THEN BuildPlayers(Tail(groups), adp_list, risk, schedules, acc)
             ELSE LET built == BuildPlayer(key, Head(groups).source_projs,
                                           adp[1], risk, schedules)
                  IN  IF built.status = "raised" THEN built
                      ELSE BuildPlayers(Tail(groups), adp_list, risk, schedules,
                                        Append(acc, built.value))

Precedes_Strict(a, b) == a.adp_std < b.adp_std

\* In a stable ascending sort on adp_std, an element already placed stays
\* ahead of a later one unless its key is strictly greater.
Precedes(a, b) == a.adp_std <= b.adp_std

RECURSIVE SortedInsert(_, _)
SortedInsert(sorted, p) ==
    IF sorted = <<>> THEN <<p>>
    ELSE IF Precedes(Head(sorted), p)
         THEN <<Head(sorted)>> \o SortedInsert(Tail(sorted), p)
         ELSE <<p>> \o sorted

RECURSIVE StableSort(_, _)
\* enhanced_players.sort(key=lambda p: p.adp_std)
StableSort(players, sorted) ==
    IF players = <<>> THEN sorted
    ELSE StableSort(Tail(players), SortedInsert(sorted, Head(players)))

aggregate_projections(pbs, adp_list, risk, schedules) ==
    LET player_projections == GroupPairs(FlattenSources(pbs), <<>>)
        built == BuildPlayers(player_projections, adp_list, risk, schedules, <<>>)
    IN  IF built.status = "raised" THEN built
        ELSE Returned(StableSort(built.value, <<>>))

----------------------------------------------------------------------------
(* processors/risk_calculator.py *)

\* Age thresholds by position.
AGE_THRESHOLDS == [QB |-> 35, RB |-> 27, WR |-> 30, TE |-> 30, K |-> 38, DST |-> 99]

\* Position risk factors, in tenths.
POSITION_RISK == [QB |-> 2, RB |-> 7, WR |-> 4, TE |-> 5, K |-> 1, DST |-> 1]

\* Injury status risk multipliers, in tenths.
STATUS_RISK == [healthy |-> 0, questionable |-> 3, out |-> 5, injured |-> 5, ir |-> 8]

\* str.lower() on the status strings the model passes.
Lower(str) ==
    CASE str = "IR" -> "ir"
      [] str = "Healthy" -> "healthy"
      [] str = "OUT" -> "out"
      [] OTHER -> str

\* int(x) of num/den (den > 0): truncation toward zero.
IntTrunc(num, den) == IF num >= 0 THEN num \div den ELSE -((-num) \div den)

Min(a, b) == IF a <= b THEN a ELSE b

Max(a, b) == IF a >= b THEN a ELSE b

BaseScore102_Played(total_games) == 100 * total_games

\* base_score = (1 - total_games / 51) * 50, as a multiple of 1/102.
BaseScore102(total_games) == 100 * (51 - total_games)

\* games_played: <<g1, g2, g3>>; age: None or <<years>>.
calculate_injury_score(games_played, age, position, current_status) ==
    LET total_games == games_played[1] + games_played[2] + games_played[3]
        base_score == BaseScore102(total_games)
        pos_risk == IF position \in DOMAIN POSITION_RISK
                    THEN POSITION_RISK[position] ELSE 3
        pos_score == pos_risk * 2
        threshold == IF position \in DOMAIN AGE_THRESHOLDS
                     THEN AGE_THRESHOLDS[position] ELSE 30
        age_score == IF age # None /\ age[1] > threshold
                     THEN Min((age[1] - threshold) * 3, 15) ELSE 0
        status == Lower(current_status)
        status_risk == IF status \in DOMAIN STATUS_RISK
                       THEN STATUS_RISK[status] ELSE 0
        \* status_score = status_risk * 15 = (tenths * 153) / 102
        total == IntTrunc(base_score + 102 * pos_score + 102 * age_score
                          + 153 * status_risk, 102)
    IN  Min(Max(total, 0), 100)

ActiveWeeks_All(weekly_points) == weekly_points

\* active_weeks = [p for p in weekly_points if p > 0]
ActiveWeeks(weekly_points) == SelectSeq(weekly_points, LAMBDA p : p > 0)

TooFewActive_AtMostTwo(active_weeks) == Len(active_weeks) <= 2

\* if len(active_weeks) < 2
TooFewActive(active_weeks) == Len(active_weeks) < 2

RECURSIVE SeqSum(_)
SeqSum(seq) == IF seq = <<>> THEN 0 ELSE Head(seq) + SeqSum(Tail(seq))

RECURSIVE SeqSumSq(_)
SeqSumSq(seq) == IF seq = <<>> THEN 0 ELSE Head(seq) * Head(seq) + SeqSumSq(Tail(seq))

\* The sign of a*a - 4000000*q for a >= 0, q >= 0, computed without leaving
\* 32 bits (a below 540000).
CmpSq(a, q) ==
    LET h == a \div 2000
        r == a % 2000
    IN  IF h * h > q THEN 1
        ELSE IF q >= (h + 1) * (h + 1) THEN -1
        ELSE LET lhs == 2 * h * 2000 * r + r * r
                 rhs == 4000000 * (q - h * h)
             IN  IF lhs > rhs THEN 1 ELSE IF lhs < rhs THEN -1 ELSE 0

\* round(max(0.0, min(1.0, 1.0 - cv)), 3) in thousandths, where cv is
\* std_dev / mean = sqrt(q) / s with q = n * sum(x^2) - sum(x)^2, s = sum(x).
\* m = 1000 - d is the result when d - 1/2 <= 1000 * cv <= d + 1/2, a tie
\* going to the even m.
ConsistencyFromCv(q, s) ==
    IF q >= s * s THEN 0
    ELSE CHOOSE m \in 0..1000 :
            LET d == 1000 - m
                lo == IF d = 0 THEN -1 ELSE CmpSq((2 * d - 1) * s, q)
                hi == CmpSq((2 * d + 1) * s, q)
            IN  /\ lo < 0 \/ (lo = 0 /\ m % 2 = 0)
                /\ hi > 0 \/ (hi = 0 /\ m % 2 = 0)

\* weekly_points in whole points (the score depends on ratios only);
\* the result is in thousandths.
calculate_consistency_score(weekly_points, games_played) ==
    IF games_played = 0 \/ Len(weekly_points) = 0 THEN 500
    ELSE LET active_weeks == ActiveWeeks(weekly_points)
         IN  IF TooFewActive(active_weeks) THEN 500
             ELSE LET n == Len(active_weeks)
                      s == SeqSum(active_weeks)
                  IN  IF s = 0 THEN 500   \* mean == 0
                      ELSE IF s < 0 THEN 1000   \* cv < 0, min(1.0, 1.0 - cv)
                      ELSE ConsistencyFromCv(n * SeqSumSq(active_weeks) - s * s, s)

\* <<q, r>> with a * b = q * den + r and 0 <= r < den, for a >= 0, b >= 0,
\* computed by halving b so that no intermediate leaves 32 bits
\* (den below 700000000).
RECURSIVE MulDivMod(_, _, _)
MulDivMod(a, b, den) ==
    IF b = 0 THEN <<0, 0>>
    ELSE LET half == MulDivMod(a, b \div 2, den)
             rest == 2 * half[2] + (b % 2) * (a % den)
         IN  <<2 * half[1] + (b % 2) * (a \div den) + rest \div den, rest % den>>

\* Nearest integer to a * b / den, ties to the even integer.
RoundHalfEvenMul(a, b, den) ==
    LET qr == MulDivMod(a, b, den)
    IN  IF 2 * qr[2] < den THEN qr[1]
        ELSE IF 2 * qr[2] > den THEN qr[1] + 1
        ELSE IF qr[1] % 2 = 0 THEN qr[1] ELSE qr[1] + 1

\* variance_factor = 0.1 + (1 - consistency_score) * 0.25, as a multiple of
\* 1/4000 (consistency_score in thousandths).
VarianceFactor4000(consistency_score) == 400 + (1000 - consistency_score)

InjuryFactor500_Steeper(injury_score) == 500 - 2 * injury_score

\* injury_factor = 1 - (injury_score / 100) * 0.2, as a multiple of 1/500.
InjuryFactor500(injury_score) == 500 - injury_score

\* <<floor, ceiling>> in thousandths, each rounded to one decimal.
calculate_floor_ceiling(projected_points, consistency_score, injury_score) ==
    IF projected_points <= 0 THEN <<0, 0>>
    ELSE LET variance_factor == VarianceFactor4000(consistency_score)
             injury_factor == InjuryFactor500(injury_score)
             \* projected_points * (1 + variance_factor) * injury_factor
             ceiling == 100 * RoundHalfEvenMul((4000 + variance_factor) * injury_factor,
                                               projected_points, 100 * 4000 * 500)
             \* projected_points * (1 - variance_factor)
             floor == 100 * RoundHalfEvenMul(4000 - variance_factor,
                                             projected_points, 100 * 4000)
         IN  <<floor, ceiling>>

\* round(variance ** 0.5, 2) in thousandths for n weeks with sum s and sum of
\* squares s2: the population standard deviation is sqrt(q) / n with
\* q = n * s2 - s * s, and h hundredths is the result when
\* (2h - 1) * n <= 200 * sqrt(q) < (2h + 1) * n.
RoundedStdDev(n, q) ==
    10 * (CHOOSE h \in 0..2000 :
            /\ h = 0 \/ (2 * h - 1) * (2 * h - 1) * n * n <= 40000 * q
            /\ 40000 * q < (2 * h + 1) * (2 * h + 1) * n * n)

\* weekly_variance of create_risk_profile; weekly_points in whole points,
\* projected_points in thousandths and a multiple of 0.01.
WeeklyVariance(weekly_points, projected_points) ==
    LET active_weeks == SelectSeq(weekly_points, LAMBDA p : p > 0)
        n == Len(active_weeks)
        s == SeqSum(active_weeks)
    IN  IF n >= 2 THEN RoundedStdDev(n, n * SeqSumSq(active_weeks) - s * s)
        ELSE (projected_points * 3) \div 10

\* The RiskProfile fields that create_risk_profile computes.
create_risk_profile(games_played, age, position, current_status, weekly_points, projected_points) ==
    LET injury_score == calculate_injury_score(games_played, age, position,
                                               current_status)
        total_games == games_played[1] + games_played[2] + games_played[3]
        consistency_score == calculate_consistency_score(weekly_points, total_games)
        fc == calculate_floor_ceiling(projected_points, consistency_score, injury_score)
    IN  RiskProfile(injury_score, consistency_score, fc[1], fc[2],
                    WeeklyVariance(weekly_points, projected_points))

----------------------------------------------------------------------------
(* processors/schedule_analyzer.py *)

\* Week weights for the SOS calculation, in tenths.
WEEK_WEIGHTS ==
    [week \in 1..17 |-> IF week <= 4 THEN 8 ELSE IF week <= 13 THEN 10 ELSE 15]

DomeApplies_Always(is_dome, rating) == is_dome

\* if is_dome and rating > 1
DomeApplies(is_dome, rating) == is_dome /\ rating > 1

matchup_rating(def_rank, is_dome) ==
    LET rating == IF def_rank <= 6 THEN 5
                  ELSE IF def_rank <= 12 THEN 4
                  ELSE IF def_rank <= 20 THEN 3
                  ELSE IF def_rank <= 26 THEN 2
                  ELSE 1
    IN  IF DomeApplies(is_dome, rating) THEN rating - 1 ELSE rating

WeekWeight_Flat(weights, week) == 10

\* weights.get(week, 1.0), in tenths
WeekWeight(weights, week) == IF week \in DOMAIN weights THEN weights[week] ELSE 10

\* total_weight over weeks 1..week, in tenths
RECURSIVE SosTotalWeight(_, _, _)
SosTotalWeight(weekly_matchups, weights, week) ==
    IF week = 0 THEN 0
    ELSE SosTotalWeight(weekly_matchups, weights, week - 1) + WeekWeight(weights, week)

\* 2 * weighted_sum over weeks 1..week, in tenths: normalized = (rating - 3) / 2
RECURSIVE SosWeightedSum2(_, _, _)
SosWeightedSum2(weekly_matchups, weights, week) ==
    IF week = 0 THEN 0
    ELSE SosWeightedSum2(weekly_matchups, weights, week - 1)
         + (weekly_matchups[week] - 3) * WeekWeight(weights, week)

\* round(max(-1.0, min(1.0, num / den)), 3) in thousandths, den # 0
ClampRound3(num, den) ==
    LET n == IF den < 0 THEN -num ELSE num
        d == IF den < 0 THEN -den ELSE den
    IN  IF n >= d THEN 1000
        ELSE IF n <= -d THEN -1000
        ELSE RoundHalfEven(1000 * n, d)

\* weights: None or Some(map week -> weight in tenths); result in thousandths.
calculate_sos(weekly_matchups, weights) ==
    IF weekly_matchups = <<>> THEN 0
    ELSE LET w == IF Truthy(weights) THEN weights[1] ELSE WEEK_WEIGHTS
             n == Len(weekly_matchups)
             total_weight == SosTotalWeight(weekly_matchups, w, n)
         IN  IF total_weight = 0 THEN 0
             ELSE ClampRound3(SosWeightedSum2(weekly_matchups, w, n), 2 * total_weight)

PlayoffWeeks_LastFour(weekly_matchups) ==
    SubSeq(weekly_matchups, Len(weekly_matchups) - 3, Len(weekly_matchups))

\* weekly_matchups[13:17]
PlayoffWeeks(weekly_matchups) == SubSeq(weekly_matchups, 14, Min(17, Len(weekly_matchups)))

\* result in thousandths
calculate_playoff_sos(weekly_matchups) ==
    IF Len(weekly_matchups) < 17 THEN 0
    ELSE LET playoff_weeks == PlayoffWeeks(weekly_matchups)
             n == Len(playoff_weeks)
         IN  IF n = 0 THEN 0
             \* sos = (sum / n - 3) / 2
             ELSE ClampRound3(SeqSum(playoff_weeks) - 3 * n, 2 * n)

create_schedule_score(team, weekly_matchups, bye_week, dome_games) ==
    ScheduleScore(team, calculate_sos(weekly_matchups, None),
                  calculate_playoff_sos(weekly_matchups))
    @@ [weekly_matchups |-> weekly_matchups, bye_week |-> bye_week,
        dome_games |-> dome_games]

----------------------------------------------------------------------------
(* scrapers/constants.py.  A Python string is a sequence of one-character    *)
(* strings; the tables hold TLA+ strings.                                    *)

TEAM_ABBREVIATIONS ==
    {
     "ARI", "ATL", "BAL", "BUF", "CAR", "CHI", "CIN", "CLE", "DAL", "DEN",
     "DET", "GB", "HOU", "IND", "JAX", "KC", "LAC", "LAR", "LV", "MIA",
     "MIN", "NE", "NO", "NYG", "NYJ", "PHI", "PIT", "SEA", "SF", "TB",
     "TEN", "WSH"
    }

\* The keys are stored upper-cased: the lookup compares name.upper().
TEAM_NAME_TO_ABBR ==
    "CARDINALS" :> "ARI" @@
    "ARIZONA" :> "ARI" @@
    "FALCONS" :> "ATL" @@
    "ATLANTA" :> "ATL" @@
    "RAVENS" :> "BAL" @@
    "BALTIMORE" :> "BAL" @@
    "BILLS" :> "BUF" @@
    "BUFFALO" :> "BUF" @@
    "PANTHERS" :> "CAR" @@
    "CAROLINA" :> "CAR" @@
    "BEARS" :> "CHI" @@
    "CHICAGO" :> "CHI" @@
    "BENGALS" :> "CIN" @@
    "CINCINNATI" :> "CIN" @@
    "BROWNS" :> "CLE" @@
    "CLEVELAND" :> "CLE" @@
    "COWBOYS" :> "DAL" @@
    "DALLAS" :> "DAL" @@
    "BRONCOS" :> "DEN" @@
    "DENVER" :> "DEN" @@
    "LIONS" :> "DET" @@
    "DETROIT" :> "DET" @@
    "PACKERS" :> "GB" @@
    "GREEN BAY" :> "GB" @@
    "TEXANS" :> "HOU" @@
    "HOUSTON" :> "HOU" @@
    "COLTS" :> "IND" @@
    "INDIANAPOLIS" :> "IND" @@
    "JAGUARS" :> "JAX" @@
    "JACKSONVILLE" :> "JAX" @@
    "CHIEFS" :> "KC" @@
    "KANSAS CITY" :> "KC" @@
    "CHARGERS" :> "LAC" @@
    "L.A. CHARGERS" :> "LAC" @@
    "LOS ANGELES CHARGERS" :> "LAC" @@
    "RAMS" :> "LAR" @@
    "L.A. RAMS" :> "LAR" @@
    "LOS ANGELES RAMS" :> "LAR" @@
    "RAIDERS" :> "LV" @@
    "LAS VEGAS" :> "LV" @@
    "DOLPHINS" :> "MIA" @@
    "MIAMI" :> "MIA" @@
    "VIKINGS" :> "MIN" @@
    "MINNESOTA" :> "MIN" @@
    "PATRIOTS" :> "NE" @@
    "NEW ENGLAND" :> "NE" @@
    "SAINTS" :> "NO" @@
    "NEW ORLEANS" :> "NO" @@
    "GIANTS" :> "NYG" @@
    "N.Y. GIANTS" :> "NYG" @@
    "NEW YORK GIANTS" :> "NYG" @@
    "JETS" :> "NYJ" @@
    "N.Y. JETS" :> "NYJ" @@
    "NEW YORK JETS" :> "NYJ" @@
    "EAGLES" :> "PHI" @@
    "PHILADELPHIA" :> "PHI" @@
    "STEELERS" :> "PIT" @@
    "PITTSBURGH" :> "PIT" @@
    "SEAHAWKS" :> "SEA" @@
    "SEATTLE" :> "SEA" @@
    "49ERS" :> "SF" @@
    "SAN FRANCISCO" :> "SF" @@
    "BUCCANEERS" :> "TB" @@
    "TAMPA BAY" :> "TB" @@
    "TITANS" :> "TEN" @@
    "TENNESSEE" :> "TEN" @@
    "COMMANDERS" :> "WSH" @@
    "WASHINGTON" :> "WSH"

LEGACY_TEAM_FIXES == "WAS" :> "WSH" @@ "JAC" :> "JAX" @@ "LA" :> "LAR"

\* The characters str.strip() removes among those the model uses.
Whitespace == {" ", "\t"}

LowerCase ==
    <<"a", "b", "c", "d", "e", "f", "g", "h", "i", "j", "k", "l", "m",
      "n", "o", "p", "q", "r", "s", "t", "u", "v", "w", "x", "y", "z">>

UpperCase ==
    <<"A", "B", "C", "D", "E", "F", "G", "H", "I", "J", "K", "L", "M",
      "N", "O", "P", "Q", "R", "S", "T", "U", "V", "W", "X", "Y", "Z">>

\* str.upper() on one character
UpperChar(ch) ==
    IF \E i \in DOMAIN LowerCase : LowerCase[i] = ch
    THEN UpperCase[CHOOSE i \in DOMAIN LowerCase : LowerCase[i] = ch]
    ELSE ch

\* str.lower() on one character
LowerChar(ch) ==
    IF \E i \in DOMAIN UpperCase : UpperCase[i] = ch
    THEN LowerCase[CHOOSE i \in DOMAIN UpperCase : UpperCase[i] = ch]
    ELSE ch

Upper(str) == [i \in DOMAIN str |-> UpperChar(str[i])]

RECURSIVE LStrip(_)
LStrip(str) ==
    IF str # <<>> /\ Head(str) \in Whitespace THEN LStrip(Tail(str)) ELSE str

RECURSIVE RStrip(_)
RStrip(str) ==
    IF str # <<>> /\ str[Len(str)] \in Whitespace
    THEN RStrip(SubSeq(str, 1, Len(str) - 1)) ELSE str

Strip_LeftOnly(str) == LStrip(str)

\* str.strip()
Strip(str) == RStrip(LStrip(str))

\* The TLA+ string of a sequence of characters.
RECURSIVE Join(_)
Join(str) == IF str = <<>> THEN "" ELSE Head(str) \o Join(Tail(str))

\* team: a sequence of characters; the outcome is the code returned or the
\* ValueError raised.
normalize_team(team) ==
    LET t == Join(Upper(Strip(team)))
    IN  IF t \in TEAM_ABBREVIATIONS THEN Returned(t)
        ELSE IF t \in DOMAIN LEGACY_TEAM_FIXES THEN Returned(LEGACY_TEAM_FIXES[t])
        ELSE IF t \in DOMAIN TEAM_NAME_TO_ABBR THEN Returned(TEAM_NAME_TO_ABBR[t])
        ELSE Raised([type |-> "ValueError", message |-> "Unknown team: " \o t])

----------------------------------------------------------------------------
(* scrapers/constants.py: create_player_key, and the adapters' team defenses *)

\* The characters of the team codes.
CodeChars ==
    "ARI" :> <<"A", "R", "I">> @@
    "ATL" :> <<"A", "T", "L">> @@
    "BAL" :> <<"B", "A", "L">> @@
    "BUF" :> <<"B", "U", "F">> @@
    "CAR" :> <<"C", "A", "R">> @@
    "CHI" :> <<"C", "H", "I">> @@
    "CIN" :> <<"C", "I", "N">> @@
    "CLE" :> <<"C", "L", "E">> @@
    "DAL" :> <<"D", "A", "L">> @@
    "DEN" :> <<"D", "E", "N">> @@
    "DET" :> <<"D", "E", "T">> @@
    "GB" :> <<"G", "B">> @@
    "HOU" :> <<"H", "O", "U">> @@
    "IND" :> <<"I", "N", "D">> @@
    "JAX" :> <<"J", "A", "X">> @@
    "KC" :> <<"K", "C">> @@
    "LAC" :> <<"L", "A", "C">> @@
    "LAR" :> <<"L", "A", "R">> @@
    "LV" :> <<"L", "V">> @@
    "MIA" :> <<"M", "I", "A">> @@
    "MIN" :> <<"M", "I", "N">> @@
    "NE" :> <<"N", "E">> @@
    "NO" :> <<"N", "O">> @@
    "NYG" :> <<"N", "Y", "G">> @@
    "NYJ" :> <<"N", "Y", "J">> @@
    "PHI" :> <<"P", "H", "I">> @@
    "PIT" :> <<"P", "I", "T">> @@
    "SEA" :> <<"S", "E", "A">> @@
    "SF" :> <<"S", "F">> @@
    "TB" :> <<"T", "B">> @@
    "TEN" :> <<"T", "E", "N">> @@
    "WSH" :> <<"W", "S", "H">>

\* The keys of TEAM_NAME_TO_ABBR as written, for the lookups that compare
\* the case too.
TEAM_NAMES ==
    {
     <<"C", "a", "r", "d", "i", "n", "a", "l", "s">>,
     <<"A", "r", "i", "z", "o", "n", "a">>,
     <<"F", "a", "l", "c", "o", "n", "s">>,
     <<"A", "t", "l", "a", "n", "t", "a">>,
     <<"R", "a", "v", "e", "n", "s">>,
     <<"B", "a", "l", "t", "i", "m", "o", "r", "e">>,
     <<"B", "i", "l", "l", "s">>,
     <<"B", "u", "f", "f", "a", "l", "o">>,
     <<"P", "a", "n", "t", "h", "e", "r", "s">>,
     <<"C", "a", "r", "o", "l", "i", "n", "a">>,
     <<"B", "e", "a", "r", "s">>,
     <<"C", "h", "i", "c", "a", "g", "o">>,
     <<"B", "e", "n", "g", "a", "l", "s">>,
     <<"C", "i", "n", "c", "i", "n", "n", "a", "t", "i">>,
     <<"B", "r", "o", "w", "n", "s">>,
     <<"C", "l", "e", "v", "e", "l", "a", "n", "d">>,
     <<"C", "o", "w", "b", "o", "y", "s">>,
     <<"D", "a", "l", "l", "a", "s">>,
     <<"B", "r", "o", "n", "c", "o", "s">>,
     <<"D", "e", "n", "v", "e", "r">>,
     <<"L", "i", "o", "n", "s">>,
     <<"D", "e", "t", "r", "o", "i", "t">>,
     <<"P", "a", "c", "k", "e", "r", "s">>,
     <<"G", "r", "e", "e", "n", " ", "B", "a", "y">>,
     <<"T", "e", "x", "a", "n", "s">>,
     <<"H", "o", "u", "s", "t", "o", "n">>,
     <<"C", "o", "l", "t", "s">>,
     <<"I", "n", "d", "i", "a", "n", "a", "p", "o", "l", "i", "s">>,
     <<"J", "a", "g", "u", "a", "r", "s">>,
     <<"J", "a", "c", "k", "s", "o", "n", "v", "i", "l", "l", "e">>,
     <<"C", "h", "i", "e", "f", "s">>,
     <<"K", "a", "n", "s", "a", "s", " ", "C", "i", "t", "y">>,
     <<"C", "h", "a", "r", "g", "e", "r", "s">>,
     <<"L", ".", "A", ".", " ", "C", "h", "a", "r", "g", "e", "r", "s">>,
     <<"L", "o", "s", " ", "A", "n", "g", "e", "l", "e", "s", " ", "C", "h", "a", "r", "g", "e", "r", "s">>,
     <<"R", "a", "m", "s">>,
     <<"L", ".", "A", ".", " ", "R", "a", "m", "s">>,
     <<"L", "o", "s", " ", "A", "n", "g", "e", "l", "e", "s", " ", "R", "a", "m", "s">>,
     <<"R", "a", "i", "d", "e", "r", "s">>,
     <<"L", "a", "s", " ", "V", "e", "g", "a", "s">>,
     <<"D", "o", "l", "p", "h", "i", "n", "s">>,
     <<"M", "i", "a", "m", "i">>,
     <<"V", "i", "k", "i", "n", "g", "s">>,
     <<"M", "i", "n", "n", "e", "s", "o", "t", "a">>,
     <<"P", "a", "t", "r", "i", "o", "t", "s">>,
     <<"N", "e", "w", " ", "E", "n", "g", "l", "a", "n", "d">>,
     <<"S", "a", "i", "n", "t", "s">>,
     <<"N", "e", "w", " ", "O", "r", "l", "e", "a", "n", "s">>,
     <<"G", "i", "a", "n", "t", "s">>,
     <<"N", ".", "Y", ".", " ", "G", "i", "a", "n", "t", "s">>,
     <<"N", "e", "w", " ", "Y", "o", "r", "k", " ", "G", "i", "a", "n", "t", "s">>,
     <<"J", "e", "t", "s">>,
     <<"N", ".", "Y", ".", " ", "J", "e", "t", "s">>,
     <<"N", "e", "w", " ", "Y", "o", "r", "k", " ", "J", "e", "t", "s">>,
     <<"E", "a", "g", "l", "e", "s">>,
     <<"P", "h", "i", "l", "a", "d", "e", "l", "p", "h", "i", "a">>,
     <<"S", "t", "e", "e", "l", "e", "r", "s">>,
     <<"P", "i", "t", "t", "s", "b", "u", "r", "g", "h">>,
     <<"S", "e", "a", "h", "a", "w", "k", "s">>,
     <<"S", "e", "a", "t", "t", "l", "e">>,
     <<"4", "9", "e", "r", "s">>,
     <<"S", "a", "n", " ", "F", "r", "a", "n", "c", "i", "s", "c", "o">>,
     <<"B", "u", "c", "c", "a", "n", "e", "e", "r", "s">>,
     <<"T", "a", "m", "p", "a", " ", "B", "a", "y">>,
     <<"T", "i", "t", "a", "n", "s">>,
     <<"T", "e", "n", "n", "e", "s", "s", "e", "e">>,
     <<"C", "o", "m", "m", "a", "n", "d", "e", "r", "s">>,
     <<"W", "a", "s", "h", "i", "n", "g", "t", "o", "n">>
    }

\* str.lower()
LowerStr(str) == [i \in DOMAIN str |-> LowerChar(str[i])]

StartsWith(str, old) == Len(str) >= Len(old) /\ SubSeq(str, 1, Len(old)) = old

RECURSIVE Remove(_, _)
\* str.replace(old, ""): the occurrences from left to right, not overlapping.
Remove(str, old) ==
    IF str = <<>> THEN <<>>
    ELSE IF StartsWith(str, old)
         THEN Remove(SubSeq(str, Len(old) + 1, Len(str)), old)
         ELSE <<Head(str)>> \o Remove(Tail(str), old)

\* re.sub(r"[^a-z ]+", "", str)
OnlyLettersAndSpaces(str) ==
    SelectSeq(str, LAMBDA ch : ch = " " \/ ch \in Range(LowerCase))

RECURSIVE LastPart(_)
\* parts[-1] of str.split() for a stripped str; the string itself when it
\* has no part.
LastPart(str) ==
    IF str = <<>> \/ str[Len(str)] \in Whitespace THEN <<>>
    ELSE LastPart(SubSeq(str, 1, Len(str) - 1)) \o <<str[Len(str)]>>

\* name, pos and team are sequences of characters; the key is a string.
create_player_key(name, pos, team) ==
    LET lowered == LowerStr(name)
        clean_name == Strip(Remove(Remove(Remove(lowered, <<"s", "r">>), <<"j", "r">>), <<".">>))
        cleaned == Strip(OnlyLettersAndSpaces(clean_name))
        last_name == LastPart(cleaned)
    IN  Join(last_name) \o "_" \o Join(LowerStr(pos)) \o "_" \o Join(LowerStr(team))

DST == <<"D", "S", "T">>

\* ESPNScraper._parse_player on a row whose name contains "D/ST": the key,
\* or None when the team is unknown.
espn_dst_key(name) ==
    LET team_name == Strip(Remove(name, <<"D", "/", "S", "T">>))
        team == normalize_team(team_name)
    IN  IF team.status = "raised" THEN None
        ELSE Some(create_player_key(name, DST, CodeChars[team.value]))

\* CBSScraper._parse_row on a DST row whose link's href holds part.
cbs_dst_key(part) ==
    LET team == normalize_team(part)
    IN  IF team.status = "raised" THEN None
        ELSE LET name == CodeChars[team.value] \o <<" ", "D", "/", "S", "T">>
             IN  Some(create_player_key(name, DST, CodeChars[team.value]))

\* NFLScraper._parse_dst_row
nfl_dst_key(name) ==
    LET team_name == Strip(Remove(name, <<"D", "e", "f", "e", "n", "s", "e">>))
    IN  IF team_name \notin TEAM_NAMES THEN None
        ELSE Some(create_player_key(name, DST,
                                    CodeChars[TEAM_NAME_TO_ABBR[Join(Upper(team_name))]]))

----------------------------------------------------------------------------
(* validators/data_quality.py *)

ValidationResult(is_valid, errors, warnings, stats) ==
    [is_valid |-> is_valid, errors |-> errors, warnings |-> warnings, stats |-> stats]

\* Minimum player counts by position (strict mode).
MIN_COUNTS_STRICT == [QB |-> 32, RB |-> 64, WR |-> 64, TE |-> 28, K |-> 15, DST |-> 32]

\* The keys of MIN_COUNTS_STRICT in the order the dictionary lists them.
MinCountPositions == <<"QB", "RB", "WR", "TE", "K", "DST">>

\* v // 3
RelaxedCount(v) == v \div 3

\* Relaxed minimum counts (for partial scrapes).
MIN_COUNTS_RELAXED == [k \in DOMAIN MIN_COUNTS_STRICT |-> RelaxedCount(MIN_COUNTS_STRICT[k])]

\* Valid NFL teams.
VALID_TEAMS ==
    {"ARI", "ATL", "BAL", "BUF", "CAR", "CHI", "CIN", "CLE",
     "DAL", "DEN", "DET", "GB", "HOU", "IND", "JAX", "KC",
     "LAC", "LAR", "LV", "MIA", "MIN", "NE", "NO", "NYG",
     "NYJ", "PHI", "PIT", "SEA", "SF", "TB", "TEN", "WAS"}

Digit == <<"0", "1", "2", "3", "4", "5", "6", "7", "8", "9">>

\* str(n) for n >= 0
RECURSIVE Str(_)
Str(n) == IF n < 10 THEN Digit[n + 1] ELSE Str(n \div 10) \o Digit[(n % 10) + 1]

\* The team and position strings that are not valid, in sorted() order.
SortedUnknown == <<"FA", "FB", "LB", "WSH", "XX">>

\* ', '.join(sorted(strings)) for a set of the strings above
JoinSorted(strings) ==
    LET present == SelectSeq(SortedUnknown, LAMBDA x : x \in strings)
        joined[i \in 0..Len(present)] ==
            IF i = 0 THEN ""
            ELSE IF i = 1 THEN present[1]
            ELSE joined[i - 1] \o ", " \o present[i]
    IN  joined[Len(present)]

\* position_counts.get(pos, 0)
PositionCount(projections, pos) ==
    Cardinality({i \in DOMAIN projections : projections[i].pos = pos})

\* position_counts: a count for every position that occurs
PositionCounts(projections) ==
    [pos \in {projections[i].pos : i \in DOMAIN projections} |->
        PositionCount(projections, pos)]

Short_AtMost(actual, min_count) == actual <= min_count

\* if actual < min_count
Short(actual, min_count) == actual < min_count

\* The messages of the minimum-count loop over the first n positions.
RECURSIVE CountMessages(_, _, _, _)
CountMessages(projections, min_counts, strict, n) ==
    IF n = 0 THEN <<>>
    ELSE LET pos == MinCountPositions[n]
             min_count == min_counts[pos]
             actual == PositionCount(projections, pos)
             before == CountMessages(projections, min_counts, strict, n - 1)
         IN  IF Short(actual, min_count)
             THEN Append(before,
                         (IF strict THEN "Insufficient " \o pos \o ": "
                          ELSE "Low " \o pos \o " count: ")
                         \o Str(actual) \o " < " \o Str(min_count))
             ELSE before

validate_projections(projections, strict) ==
    IF projections = <<>>
    THEN ValidationResult(FALSE, <<"No projections provided">>, <<>>,
                          [total |-> 0, by_position |-> <<>>])
    ELSE LET invalid_teams == {projections[i].team : i \in DOMAIN projections} \ VALID_TEAMS
             invalid_positions == {projections[i].pos : i \in DOMAIN projections}
                                  \ DOMAIN MIN_COUNTS_STRICT
             min_counts == IF strict THEN MIN_COUNTS_STRICT ELSE MIN_COUNTS_RELAXED
             messages == CountMessages(projections, min_counts, strict,
                                       Len(MinCountPositions))
             errors == IF strict THEN messages ELSE <<>>
             warnings ==
                 (IF strict THEN <<>> ELSE messages)
                 \o (IF invalid_teams # {}
                     THEN <<"Unknown teams: " \o JoinSorted(invalid_teams)>> ELSE <<>>)
                 \o (IF invalid_positions # {}
                     THEN <<"Unknown positions: " \o JoinSorted(invalid_positions)>>
                     ELSE <<>>)
         IN  ValidationResult(Len(errors) = 0, errors, warnings,
                              [total |-> Len(projections),
                               by_position |-> PositionCounts(projections)])

\* An ADPData with the fields the validator reads beside the three ADP numbers.
ADPRecord(key, name, pos, team, bye, std, half_ppr, ppr) ==
    ADPData(key, bye, std, half_ppr, ppr) @@ [name |-> name, pos |-> pos, team |-> team]

\* if adp.std <= 0 or adp.std > 500, and the same for half_ppr and ppr
InvalidAdp(adp) ==
    \/ adp.std <= 0 \/ adp.std > 500000
    \/ adp.half_ppr <= 0 \/ adp.half_ppr > 500000
    \/ adp.ppr <= 0 \/ adp.ppr > 500000

\* The warning lists up to five names in the iteration order of a Python
\* set; the model writes the warning of a list with one such name.
validate_adp(adp_list, min_players) ==
    IF adp_list = <<>>
    THEN ValidationResult(FALSE, <<"No ADP data provided">>, <<>>, [total |-> 0])
    ELSE LET errors ==
                 IF Len(adp_list) < min_players
                 THEN <<"Insufficient ADP data: " \o Str(Len(adp_list)) \o " < "
                        \o Str(min_players)>>
                 ELSE <<>>
             invalid_adp == {adp_list[i].name : i \in {j \in DOMAIN adp_list :
                                                        InvalidAdp(adp_list[j])}}
             warnings ==
                 IF invalid_adp # {}
                 THEN <<"Players with invalid ADP: " \o (CHOOSE name \in invalid_adp : TRUE)>>
                 ELSE <<>>
         IN  ValidationResult(Len(errors) = 0, errors, warnings,
                              [total |-> Len(adp_list),
                               by_position |-> PositionCounts(adp_list)])

----------------------------------------------------------------------------
(* Inputs of aggregate_projections *)

\* The most records one projections map holds, over all its sources.
MaxRecs == 3

Idle == [status |-> "idle"]

\* No risk profile call is under way.
ProfileIdle == floor_ceiling_call = Idle /\ risk_profile_call = Idle

\* No schedule analyzer call is under way.
ScheduleIdle ==
    /\ matchup_call = Idle
    /\ sos_call = Idle
    /\ playoff_sos_call = Idle
    /\ schedule_score_call = Idle
    /\ adjustment_call = Idle

\* No pipeline run is under way.
PipelineIdle ==
    /\ run_args = Idle
    /\ scrape_outcomes = Idle
    /\ pc = "idle"
    /\ source_index = 0
    /\ output_file = None
    /\ run_result = Idle

\* No scrape() call is under way.
ScrapeIdle ==
    /\ scraper = Idle
    /\ attempt = 0
    /\ scrape_pc = "idle"
    /\ page_index = 0
    /\ driver = None
    /\ open_drivers = {}
    /\ scraped = <<>>
    /\ attempt_log = <<>>
    /\ scrape_result = Idle

ScraperIdle == key_call = Idle /\ adp_pages = Idle /\ ScrapeIdle

LateIdle == validation_call = Idle /\ PipelineIdle /\ ScraperIdle

\* aggregate_projections is not called.
AggIdle ==
    /\ projections_by_source = <<>>
    /\ adp_data = <<>>
    /\ risk_profiles = None
    /\ schedule_scores = None
    /\ enhanced_players = Idle

\* None of the three scoring functions is called.
CalcIdle == wa_call = Idle /\ injury_call = Idle /\ consistency_call = Idle

ExtIdle == ProfileIdle /\ ScheduleIdle /\ team_call = Idle /\ LateIdle

K1 == "mixon_rb_cin"

K2 == "kelce_te_kc"

K3 == "nobody_wr_fa"

\* One record per key; K3 never has ADP data.
JoinPool ==
    { PlayerProjection(K1, "Joe Mixon", "RB", "CIN", [rush_yds |-> 1000000]),
      PlayerProjection(K2, "Travis Kelce", "TE", "KC", [rec_yds |-> 900000]),
      PlayerProjection(K3, "No Body", "WR", "FA", [rec_yds |-> 500000]) }

\* Records of one player as different sources report him: a second spelling
\* and team, a zero, a negative and a three-decimal value.
StatPool ==
    { PlayerProjection(K1, "Joe Mixon", "RB", "CIN", [rush_yds |-> 1000000]),
      PlayerProjection(K1, "J. Mixon", "WR", "KC",
                       [rush_yds |-> 1100000, rec_yds |-> 50123,
                        target_share |-> Some(0)]),
      PlayerProjection(K1, "Joe Mixon", "RB", "CIN",
                       [rush_yds |-> 0, rec_yds |-> 40000,
                        target_share |-> Some(250)]),
      PlayerProjection(K1, "Joseph Mixon", "RB", "HOU", [rush_yds |-> -1000]) }

JoinOrders ==
    { <<>>, <<"ESPN">>, <<"ESPN", "CBS">>, <<"CBS", "ESPN">>,
      <<"ESPN", "CBS", "NFL">> }

StatOrders ==
    { <<"ESPN">>, <<"ESPN", "CBS">>, <<"CBS", "ESPN">>, <<"ESPN", "CBS", "NFL">>,
      <<"FantasyPros", "Yahoo">>, <<"NFL", "Yahoo", "FantasyPros">> }

ProjLists(pool, n) == UNION {[1..k -> pool] : k \in 0..n}

RECURSIVE SourceMaps(_, _, _)
\* Every map with the sources `order`, in that order, holding at most
\* `budget` records of `pool` in all.
SourceMaps(order, pool, budget) ==
    IF order = <<>> THEN {<<>>}
    ELSE UNION { { <<[source |-> Head(order), projs |-> l]>> \o rest :
                     rest \in SourceMaps(Tail(order), pool, budget - Len(l)) } :
                 l \in ProjLists(pool, budget) }

MixonAdp(std) == ADPData(K1, 10, std, std - 5000, std - 10000)

KelceAdp(std) == ADPData(K2, 6, std, std + 1000, std + 2000)

AdpLists ==
    { <<>>, <<MixonAdp(25000)>>, <<KelceAdp(25000)>>,
      <<MixonAdp(25000), KelceAdp(25000)>>, <<KelceAdp(25000), MixonAdp(25000)>>,
      <<MixonAdp(30000), KelceAdp(25000)>>, <<MixonAdp(25000), MixonAdp(30000)>>,
      <<MixonAdp(30000), MixonAdp(25000), KelceAdp(25000)>> }

RiskOptions ==
    { None, Some(<<>>),
      Some(K1 :> RiskProfile(45, 750, 150000, 280000, 8500)),
      Some(K3 :> RiskProfile(45, 750, 150000, 280000, 8500)),
      Some((K1 :> RiskProfile(91, 0, 0, 0, 0))
           @@ (K2 :> RiskProfile(8, 1000, 99900, 120500, 30000))) }

ScheduleOptions ==
    { None, Some(<<>>),
      Some("KC" :> ScheduleScore("KC", -300, -500)),
      Some("CIN" :> ScheduleScore("CIN", 1000, 1000)),
      Some(("CIN" :> ScheduleScore("CIN", 250, -125))
           @@ ("KC" :> ScheduleScore("KC", -1000, -1000))
           @@ ("FA" :> ScheduleScore("FA", 0, 0))) }

AggInput(pbs, adp, risk, schedules) ==
    [pbs |-> pbs, adp |-> adp, risk |-> risk, schedules |-> schedules]

\* Which keys join: every map of the one-record-per-key pool, every ADP list.
JoinInputs ==
    { AggInput(pbs, adp, None, None) :
        pbs \in UNION {SourceMaps(o, JoinPool, MaxRecs) : o \in JoinOrders},
        adp \in AdpLists }

\* What the sources say about one player who has ADP data.
StatInputs ==
    { AggInput(pbs, <<MixonAdp(25000)>>, None, None) :
        pbs \in UNION {SourceMaps(o, StatPool, MaxRecs) : o \in StatOrders} }

EnrichMaps ==
    UNION { SourceMaps(o, JoinPool \cup StatPool, 1) :
              o \in {<<"ESPN">>, <<"CBS", "NFL">>} }
    \cup { <<[source |-> "ESPN", projs |-> <<a, b>>],
             [source |-> "CBS", projs |-> <<c>>]>> :
             a \in StatPool, b \in JoinPool, c \in StatPool }

\* Risk profiles and schedule scores present, empty, absent or off-key.
EnrichInputs ==
    { AggInput(pbs, <<MixonAdp(30000), KelceAdp(25000)>>, risk, schedules) :
        pbs \in EnrichMaps, risk \in RiskOptions, schedules \in ScheduleOptions }

\* Records of one player with the optional fields absent, zero and set.
AdvancedPool ==
    { PlayerProjection(K1, "Joe Mixon", "RB", "CIN", <<>>),
      PlayerProjection(K1, "Joe Mixon", "RB", "CIN",
                       [target_share |-> Some(0), snap_pct |-> Some(650),
                        air_yards |-> Some(120500)]),
      PlayerProjection(K1, "Joe Mixon", "RB", "CIN",
                       [target_share |-> Some(250), red_zone_carries |-> Some(0),
                        air_yards |-> Some(0)]),
      PlayerProjection(K1, "Joe Mixon", "RB", "CIN",
                       [snap_pct |-> Some(800), red_zone_targets |-> Some(12000),
                        yards_after_contact |-> Some(310000)]) }

\* What the sources say about the optional fields of one player.
AdvancedInputs ==
    { AggInput(pbs, <<MixonAdp(25000)>>, None, None) :
        pbs \in UNION {SourceMaps(o, AdvancedPool, MaxRecs) :
                          o \in {<<"ESPN", "CBS">>, <<"NFL", "CBS", "ESPN">>}} }

AggInputs == JoinInputs \cup StatInputs \cup EnrichInputs \cup AdvancedInputs

----------------------------------------------------------------------------
(* Specification of aggregate_projections *)

InitAgg ==
    /\ \E in \in AggInputs :
          /\ projections_by_source = in.pbs
          /\ adp_data = in.adp
          /\ risk_profiles = in.risk
          /\ schedule_scores = in.schedules
    /\ enhanced_players = Pending
    /\ wa_call = Idle
    /\ injury_call = Idle
    /\ consistency_call = Idle
    /\ ExtIdle

\* players = aggregate_projections(projections, adp_data, risk_profiles, schedule_scores)
AggregateProjections ==
    /\ enhanced_players.status = "pending"
    /\ enhanced_players' = aggregate_projections(projections_by_source, adp_data,
                                                 risk_profiles, schedule_scores)
    /\ UNCHANGED <<projections_by_source, adp_data, risk_profiles, schedule_scores,
                   wa_call, injury_call, consistency_call, ext_vars>>

NextAgg == AggregateProjections

SpecAgg == InitAgg /\ [][NextAgg]_vars

----------------------------------------------------------------------------
(* Properties of aggregate_projections *)

AggReturned == enhanced_players.status = "returned"

\* The (source index, record index) places of the projections map.
Positions ==
    UNION { {<<s, i>> : i \in DOMAIN projections_by_source[s].projs} :
            s \in DOMAIN projections_by_source }

RecordAt(p) == projections_by_source[p[1]].projs[p[2]]

SourceAt(p) == projections_by_source[p[1]].source

KeyPositions(key) == {p \in Positions : RecordAt(p).key = key}

\* Sources in map order, records in list order.
Earlier(p, q) == p[1] < q[1] \/ (p[1] = q[1] /\ p[2] < q[2])

FirstPosition(key) ==
    CHOOSE p \in KeyPositions(key) : \A q \in KeyPositions(key) : p = q \/ Earlier(p, q)

ProjectedKeys == {RecordAt(p).key : p \in Positions}

AdpKeys == {adp_data[i].key : i \in DOMAIN adp_data}

RECURSIVE SumOver(_, _)
SumOver(fn, S) ==
    IF S = {} THEN 0
    ELSE LET x == CHOOSE y \in S : TRUE IN fn[x] + SumOver(fn, S \ {x})

\* C1: the output holds exactly one player for each key that occurs both in
\* some source's projection list and in the ADP list, and no other key.
C1_OnePlayerPerJoinedKey ==
    AggReturned =>
        LET out == enhanced_players.value
        IN  /\ {out[i].key : i \in DOMAIN out} = ProjectedKeys \cap AdpKeys
            /\ \A i, j \in DOMAIN out : out[i].key = out[j].key => i = j

\* A key projected by two sources but without ADP data is left out, while a
\* key with ADP data is in the output.
C1_Witness ==
    /\ AggReturned
    /\ Len(enhanced_players.value) = 1
    /\ \E p, q \in KeyPositions(K3) : p[1] # q[1]

\* C2: the output is ordered by non-decreasing adp_std, and players with
\* equal adp_std keep the order in which their keys were first encountered.
C2_SortedByAdpStable ==
    AggReturned =>
        LET out == enhanced_players.value
        IN  \A i, j \in DOMAIN out :
                i < j =>
                    /\ out[i].adp_std <= out[j].adp_std
                    /\ out[i].adp_std = out[j].adp_std =>
                           Earlier(FirstPosition(out[i].key), FirstPosition(out[j].key))

\* Two players tie on adp_std; the ADP list names them in the opposite order.
C2_Witness ==
    /\ AggReturned
    /\ Len(enhanced_players.value) = 2
    /\ enhanced_players.value[1].adp_std = enhanced_players.value[2].adp_std
    /\ Len(adp_data) = 2
    /\ adp_data[1].key = enhanced_players.value[2].key

\* The weight the claim gives each source name, in tenths.
ClaimWeight(source) ==
    CASE source = "FantasyPros" -> 12
      [] source = "ESPN" -> 10
      [] source = "CBS" -> 9
      [] source = "NFL" -> 8
      [] OTHER -> 10

ExpectedStat(key, field_name) ==
    LET P == {p \in KeyPositions(key) : RecordAt(p)[field_name] > 0}
    IN  IF P = {} THEN 0
        ELSE Round2(SumOver([p \in P |-> RecordAt(p)[field_name] * ClaimWeight(SourceAt(p))], P),
                    SumOver([p \in P |-> ClaimWeight(SourceAt(p))], P))

\* C3: every numeric stat field of every output player is the weighted
\* average, rounded to 2 decimals, over exactly the records of the key whose
\* value is > 0 (0.0 when there is none), with the fixed source weights.
C3_StatIsWeightedAverageOfPositives ==
    AggReturned =>
        \A i \in DOMAIN enhanced_players.value :
            \A n \in DOMAIN stat_fields :
                enhanced_players.value[i][stat_fields[n]] =
                    ExpectedStat(enhanced_players.value[i].key, stat_fields[n])

\* Sources of different weight report positive values and another reports 0
\* or less; the result is none of the reported values.
C3_Witness ==
    /\ AggReturned
    /\ Len(enhanced_players.value) = 1
    /\ \E p, q, r \in KeyPositions(K1) :
          /\ RecordAt(p).rush_yds > 0 /\ RecordAt(q).rush_yds > 0
          /\ ClaimWeight(SourceAt(p)) # ClaimWeight(SourceAt(q))
          /\ RecordAt(r).rush_yds <= 0
    /\ \A p \in KeyPositions(K1) : RecordAt(p).rush_yds # enhanced_players.value[1].rush_yds

\* C5: name, position and team are those of the key's first record in
\* processing order; later records of the key never change them.
C5_IdentityFromFirstRecord ==
    AggReturned =>
        \A i \in DOMAIN enhanced_players.value :
            LET player == enhanced_players.value[i]
                first == RecordAt(FirstPosition(player.key))
            IN  /\ player.name = first.name
                /\ player.pos = first.pos
                /\ player.team = first.team

\* Two sources spell the player differently; the later one differs in name,
\* position and team.
C5_Witness ==
    /\ AggReturned
    /\ Len(enhanced_players.value) = 1
    /\ \E p, q \in KeyPositions(K1) :
          /\ p[1] < q[1]
          /\ p = FirstPosition(K1)
          /\ RecordAt(p).name # RecordAt(q).name
          /\ RecordAt(p).pos # RecordAt(q).pos
          /\ RecordAt(p).team # RecordAt(q).team

HasEntry(mapping, k) == mapping # None /\ k \in DOMAIN mapping[1]

\* C6: without a risk entry for the exact key the player carries the
\* defaults 30 / 0.5 / 0 / 0 / 0, without a schedule entry for the team the
\* schedule fields are 0; with an entry the fields are the entry's values.
C6_RiskAndScheduleDefaults ==
    AggReturned =>
        \A i \in DOMAIN enhanced_players.value :
            LET player == enhanced_players.value[i]
            IN  /\ IF HasEntry(risk_profiles, player.key)
                   THEN LET risk == risk_profiles[1][player.key]
                        IN  /\ player.injury_score = risk.injury_score
                            /\ player.consistency_score = risk.consistency_score
                            /\ player.floor = risk.floor
                            /\ player.ceiling = risk.ceiling
                            /\ player.weekly_variance = risk.weekly_variance
                   ELSE /\ player.injury_score = 30
                        /\ player.consistency_score = 500
                        /\ player.floor = 0
                        /\ player.ceiling = 0
                        /\ player.weekly_variance = 0
                /\ IF HasEntry(schedule_scores, player.team)
                   THEN LET schedule == schedule_scores[1][player.team]
                        IN  /\ player.sos_overall = schedule.sos_overall
                            /\ player.sos_playoffs = schedule.sos_playoffs
                            /\ player.schedule_adjustment =
                                   get_schedule_adjustment(schedule)
                   ELSE /\ player.sos_overall = 0
                        /\ player.sos_playoffs = 0
                        /\ player.schedule_adjustment = 0

\* One player has a risk profile and a schedule score, the other has neither.
C6_Witness ==
    /\ AggReturned
    /\ Len(enhanced_players.value) = 2
    /\ \E i, j \in DOMAIN enhanced_players.value :
          /\ HasEntry(risk_profiles, enhanced_players.value[i].key)
          /\ HasEntry(schedule_scores, enhanced_players.value[i].team)
          /\ enhanced_players.value[i].ceiling = 280000
          /\ enhanced_players.value[i].schedule_adjustment # 0
          /\ ~HasEntry(risk_profiles, enhanced_players.value[j].key)
          /\ ~HasEntry(schedule_scores, enhanced_players.value[j].team)

\* The map without the sources whose list is empty.
ListedSources(pbs) == SelectSeq(pbs, LAMBDA e : e.projs # <<>>)

\* C7: the call returns a list, never raises, whatever sources are missing
\* or empty and whether the risk and schedule maps are None, empty or lack
\* the entry; the records are those obtained without the empty sources.
C7_PartialInputsNeverRaise ==
    enhanced_players.status # "pending" =>
        /\ enhanced_players.status = "returned"
        /\ enhanced_players =
               aggregate_projections(ListedSources(projections_by_source), adp_data,
                                     risk_profiles, schedule_scores)

\* A source with an empty list precedes one with records, the risk and
\* schedule maps are None, and players are returned.
C7_Witness ==
    /\ AggReturned
    /\ Len(enhanced_players.value) >= 1
    /\ risk_profiles = None /\ schedule_scores = None
    /\ Len(projections_by_source) >= 2
    /\ projections_by_source[1].projs = <<>>
    /\ ListedSources(projections_by_source) # projections_by_source


\* The places of the key whose record has the optional field set.
PresentPositions(key, field_name) ==
    {p \in KeyPositions(key) : RecordAt(p)[field_name] # None}

\* C24: for every output player and each optional advanced-stat field, the
\* value is the field's value in the first record of the key, in source
\* processing order, where it is not None (0 counts as present), and None
\* if every record has None; later values are never averaged in.
C24_AdvancedFirstNonNone ==
    AggReturned =>
        \A i \in DOMAIN enhanced_players.value :
            \A field_name \in Range(advanced_fields) :
                LET player == enhanced_players.value[i]
                    present == PresentPositions(player.key, field_name)
                IN  player[field_name] =
                        IF present = {} THEN None
                        ELSE RecordAt(CHOOSE p \in present :
                                          \A q \in present : p = q \/ Earlier(p, q))[field_name]

\* The first source reports target_share 0 and the second 0.25: the player
\* has 0; no source reports red_zone_targets: the player has None.
C24_Witness ==
    /\ AggReturned
    /\ Len(enhanced_players.value) = 1
    /\ Len(projections_by_source) = 2
    /\ Len(projections_by_source[1].projs) = 1
    /\ Len(projections_by_source[2].projs) = 1
    /\ projections_by_source[1].projs[1].target_share = Some(0)
    /\ projections_by_source[2].projs[1].target_share = Some(250)
    /\ enhanced_players.value[1].target_share = Some(0)
    /\ enhanced_players.value[1].air_yards = Some(120500)
    /\ enhanced_players.value[1].red_zone_targets = None


\* The orders in which the sources of the projections map can be listed.
SourcePermutations ==
    LET n == Len(projections_by_source)
    IN  {f \in [1..n -> 1..n] : \A i, j \in 1..n : f[i] = f[j] => i = j}

\* The output for the same sources listed in the order f.
PermutedOutput(f) ==
    aggregate_projections([i \in DOMAIN projections_by_source |-> projections_by_source[f[i]]],
                          adp_data, risk_profiles, schedule_scores)

\* The fields that do not depend on the order of the sources.
OrderFreeFields ==
    Range(stat_fields)
    \cup {"adp_std", "adp_half_ppr", "adp_ppr"}
    \cup {"injury_score", "consistency_score", "floor", "ceiling", "weekly_variance"}

KeysOf(players) == {players[i].key : i \in DOMAIN players}

PlayerOf(players, key) == players[CHOOSE i \in DOMAIN players : players[i].key = key]

\* The largest difference the order of the sources may make to a field of
\* a player: none, but for a stat field whose exact weighted average of
\* three or more values is a tie, where the last place may differ.
OrderTolerance(key, field_name) ==
    IF field_name \in Range(stat_fields)
    THEN LET values == StatValues(
                 [i \in 1..Cardinality(KeyPositions(key)) |->
                      LET p == CHOOSE q \in KeyPositions(key) :
                                   Cardinality({r \in KeyPositions(key) : Earlier(r, q)}) = i - 1
                      IN  <<SourceAt(p), RecordAt(p)>>], field_name)
         IN  IF Len(values) >= 3 /\ IsDecimalTie(WeightedSum(values), TotalWeight(values))
             THEN 10 ELSE 0
    ELSE 0

Distance(a, b) == IF a >= b THEN a - b ELSE b - a

\* Listing the sources in another order leaves the keys of the output and,
\* up to the tolerance, every stat, ADP and risk field of every player.
SourceOrderFree ==
    AggReturned =>
        \A f \in SourcePermutations :
            LET other == PermutedOutput(f)
            IN  /\ other.status = "returned"
                /\ Len(other.value) = Len(enhanced_players.value)
                /\ KeysOf(other.value) = KeysOf(enhanced_players.value)
                /\ \A key \in KeysOf(other.value) :
                       \A field_name \in OrderFreeFields :
                           Distance(PlayerOf(other.value, key)[field_name],
                                    PlayerOf(enhanced_players.value, key)[field_name])
                               <= OrderTolerance(key, field_name)

----------------------------------------------------------------------------
(* Specification of weighted_average *)

\* The longest list of (value, weight) pairs.
MaxValues == 3

\* Values in thousandths: -1.5, 1.234, 100.0.
WAValues == {-1500, 1234, 100000}

\* Weights in tenths: -0.5, 0.0, 1.0, 2.0.
WAWeights == {-5, 0, 10, 20}

WAInputs == UNION {[1..k -> WAValues \X WAWeights] : k \in 0..MaxValues}

InitWA ==
    /\ \E values \in WAInputs : wa_call = [values |-> values, result |-> Pending]
    /\ projections_by_source = <<>>
    /\ adp_data = <<>>
    /\ risk_profiles = None
    /\ schedule_scores = None
    /\ enhanced_players = Idle
    /\ injury_call = Idle
    /\ consistency_call = Idle
    /\ ExtIdle

\* result = weighted_average(values)
WeightedAverage ==
    /\ wa_call # Idle
    /\ wa_call.result = Pending
    /\ wa_call' = [wa_call EXCEPT !.result = Returned(weighted_average(wa_call.values))]
    /\ UNCHANGED <<agg_vars, injury_call, consistency_call, ext_vars>>

NextWA == WeightedAverage

SpecWA == InitWA /\ [][NextWA]_vars

WAReturned == wa_call # Idle /\ wa_call.result.status = "returned"

WithoutZeroWeights(values) == SelectSeq(values, LAMBDA vw : vw[2] # 0)

\* Zero-weight pairs never affect the result, and the empty list gives 0.0.
WAZeroWeightsIgnored ==
    /\ wa_call.values = <<>> => wa_call.result.value = 0
    /\ wa_call.result.value = weighted_average(WithoutZeroWeights(wa_call.values))
    /\ (\A i \in DOMAIN wa_call.values : wa_call.values[i][2] = 0) =>
           wa_call.result.value = 0

----------------------------------------------------------------------------
(* Specification of the risk calculator *)

\* The longest weekly_points list.
MaxWeeks == 3

\* Games played in one season; -30 and 40 are outside 0..17.
GamesValues == {-30, 0, 9, 17, 40}

GamesTuples == GamesValues \X GamesValues \X GamesValues

Ages == {None, Some(22), Some(28), Some(31), Some(40)}

Positions6 == {"QB", "RB", "WR", "TE", "K", "DST"}

Statuses == {"healthy", "questionable", "out", "injured", "ir"}

InjuryInputs ==
    [games_played : GamesTuples, age : Ages, position : Positions6 \cup {"LB"},
     current_status : Statuses \cup {"IR", "doubtful"}, result : {Pending}]

\* Weekly totals in whole points.
WeekPoints == {-2, 0, 1, 2, 9}

ConsistencyInputs ==
    [weekly_points : UNION {[1..k -> WeekPoints] : k \in 0..MaxWeeks},
     games_played : {0, 3, 17}, result : {Pending}]

InitRisk ==
    /\ \/ injury_call \in InjuryInputs /\ consistency_call = Idle
       \/ consistency_call \in ConsistencyInputs /\ injury_call = Idle
    /\ projections_by_source = <<>>
    /\ adp_data = <<>>
    /\ risk_profiles = None
    /\ schedule_scores = None
    /\ enhanced_players = Idle
    /\ wa_call = Idle
    /\ ExtIdle

\* result = calculate_injury_score(games_played, age, position, current_status)
CalculateInjuryScore ==
    /\ injury_call # Idle
    /\ injury_call.result = Pending
    /\ injury_call' =
           [injury_call EXCEPT !.result =
               Returned(calculate_injury_score(injury_call.games_played, injury_call.age,
                                               injury_call.position,
                                               injury_call.current_status))]
    /\ UNCHANGED <<agg_vars, wa_call, consistency_call, ext_vars>>

\* result = calculate_consistency_score(weekly_points, games_played)
CalculateConsistencyScore ==
    /\ consistency_call # Idle
    /\ consistency_call.result = Pending
    /\ consistency_call' =
           [consistency_call EXCEPT !.result =
               Returned(calculate_consistency_score(consistency_call.weekly_points,
                                                    consistency_call.games_played))]
    /\ UNCHANGED <<agg_vars, wa_call, injury_call, ext_vars>>

NextRisk == CalculateInjuryScore \/ CalculateConsistencyScore

SpecRisk == InitRisk /\ [][NextRisk]_vars

InjuryReturned == injury_call # Idle /\ injury_call.result.status = "returned"

ConsistencyReturned ==
    consistency_call # Idle /\ consistency_call.result.status = "returned"

TotalGames(games_played) == games_played[1] + games_played[2] + games_played[3]

\* healthy <= questionable <= out = injured <= ir
StatusSeverity ==
    [healthy |-> 0, questionable |-> 1, out |-> 2, injured |-> 2, ir |-> 3]

\* C8: the injury score is an integer in [0,100] and, other inputs fixed, does
\* not decrease when fewer games were played, when the age is higher, or when
\* the status is more severe.
C8_InjuryScoreBoundedMonotone ==
    InjuryReturned =>
        LET c == injury_call
            score == c.result.value
        IN  /\ score \in 0..100
            /\ \A g \in GamesTuples :
                   TotalGames(g) <= TotalGames(c.games_played) =>
                       calculate_injury_score(g, c.age, c.position, c.current_status)
                           >= score
            /\ \A a \in Ages :
                   (a # None /\ c.age # None /\ a[1] >= c.age[1]) =>
                       calculate_injury_score(c.games_played, a, c.position,
                                              c.current_status) >= score
            /\ \A st \in Statuses :
                   (c.current_status \in Statuses
                      /\ StatusSeverity[st] >= StatusSeverity[c.current_status]) =>
                       calculate_injury_score(c.games_played, c.age, c.position, st)
                           >= score

\* No game in three seasons, a running back of 40 on injured reserve: 91.
C8_Witness ==
    /\ InjuryReturned
    /\ injury_call.games_played = <<0, 0, 0>>
    /\ injury_call.age = Some(40)
    /\ injury_call.position = "RB"
    /\ injury_call.current_status = "ir"
    /\ injury_call.result.value = 91

PlayedWeeks(weekly_points) == {i \in DOMAIN weekly_points : weekly_points[i] > 0}

AllPlayedEqual(weekly_points) ==
    \A i, j \in PlayedWeeks(weekly_points) : weekly_points[i] = weekly_points[j]

C10_ConsistencyBoundedDefaultZeroWeeks ==
    ConsistencyReturned =>
        LET c == consistency_call
        IN  /\ c.result.value \in 0..1000
            /\ Cardinality(PlayedWeeks(c.weekly_points)) < 2 => c.result.value = 500
            /\ c.result.value =
                   calculate_consistency_score(
                       SelectSeq(c.weekly_points, LAMBDA x : x # 0), c.games_played)

\* A zero-point week among weeks of 1, 9 points: the score is neither the
\* default nor a bound.
C10_Witness ==
    /\ ConsistencyReturned
    /\ consistency_call.weekly_points = <<1, 0, 9>>
    /\ consistency_call.games_played = 3
    /\ consistency_call.result.value = 200

----------------------------------------------------------------------------
(* Specification of the risk profile builder *)

\* projected_points in thousandths.
ProjectedPoints == {-5000, 0, 100, 1300, 182340, 201300, 351700}

FloorCeilingInputs ==
    [projected_points : ProjectedPoints,
     consistency_score : {0, 250, 500, 737, 1000},
     injury_score : {0, 10, 50, 90, 91, 100}, result : {Pending}]

\* Three seasons of games played; <<-3, 0, 0>> is outside 0..17.
ProfileGames ==
    {<<0, 0, 0>>, <<1, 0, 0>>, <<0, 0, 1>>, <<9, 17, 0>>, <<17, 17, 17>>, <<-3, 0, 0>>}

\* Weekly totals in whole points; the last two lists hold a negative total.
ProfileWeeks ==
    UNION {[1..k -> {0, 2, 9}] : k \in 0..MaxWeeks} \cup {<<-2, 9>>, <<9, -2, 9>>}

RiskProfileInputs ==
    [games_played : ProfileGames, age : {None, Some(22), Some(40)},
     position : Positions6, current_status : Statuses,
     weekly_points : ProfileWeeks, projected_points : {0, 1300, 201300},
     result : {Pending}]

InitProfile ==
    /\ \/ floor_ceiling_call \in FloorCeilingInputs /\ risk_profile_call = Idle
       \/ risk_profile_call \in RiskProfileInputs /\ floor_ceiling_call = Idle
    /\ AggIdle
    /\ CalcIdle
    /\ ScheduleIdle
    /\ team_call = Idle
    /\ LateIdle

\* result = calculate_floor_ceiling(projected_points, consistency_score, injury_score)
CalculateFloorCeiling ==
    /\ floor_ceiling_call # Idle
    /\ floor_ceiling_call.result = Pending
    /\ floor_ceiling_call' =
           [floor_ceiling_call EXCEPT !.result =
               Returned(calculate_floor_ceiling(floor_ceiling_call.projected_points,
                                                floor_ceiling_call.consistency_score,
                                                floor_ceiling_call.injury_score))]
    /\ UNCHANGED <<agg_vars, wa_call, injury_call, consistency_call, risk_profile_call,
                   schedule_vars, team_call, late_vars>>

\* result = create_risk_profile(games_played, age, position, current_status,
\*                              weekly_points, projected_points)
CreateRiskProfile ==
    /\ risk_profile_call # Idle
    /\ risk_profile_call.result = Pending
    /\ risk_profile_call' =
           [risk_profile_call EXCEPT !.result =
               Returned(create_risk_profile(risk_profile_call.games_played,
                                            risk_profile_call.age,
                                            risk_profile_call.position,
                                            risk_profile_call.current_status,
                                            risk_profile_call.weekly_points,
                                            risk_profile_call.projected_points))]
    /\ UNCHANGED <<agg_vars, wa_call, injury_call, consistency_call, floor_ceiling_call,
                   schedule_vars, team_call, late_vars>>

NextProfile == CalculateFloorCeiling \/ CreateRiskProfile

SpecProfile == InitProfile /\ [][NextProfile]_vars

FloorCeilingReturned ==
    floor_ceiling_call # Idle /\ floor_ceiling_call.result.status = "returned"

RiskProfileReturned ==
    risk_profile_call # Idle /\ risk_profile_call.result.status = "returned"

\* C11: calculate_floor_ceiling returns floor < ceiling for every
\* projected_points > 0 with consistency_score in [0,1] and injury_score in
\* [0,100], and exactly (0,0) when projected_points <= 0.
C11_FloorBelowCeiling ==
    FloorCeilingReturned =>
        LET c == floor_ceiling_call
            floor == c.result.value[1]
            ceiling == c.result.value[2]
        IN  /\ (/\ c.projected_points > 0
                /\ c.consistency_score \in 0..1000
                /\ c.injury_score \in 0..100) => floor < ceiling
            /\ c.projected_points <= 0 => (floor = 0 /\ ceiling = 0)

ValidProfileInput(c) ==
    /\ \A i \in 1..3 : c.games_played[i] \in 0..17
    /\ c.position \in Positions6
    /\ c.current_status \in Statuses
    /\ \A i \in DOMAIN c.weekly_points : c.weekly_points[i] >= 0
    /\ c.projected_points >= 0

\* C12: every RiskProfile built by create_risk_profile from valid inputs
\* (games played per season in 0..17, known position and status, non-negative
\* weekly and projected points) has floor <= ceiling, injury_score in
\* [0,100], consistency_score in [0,1] and weekly_variance >= 0.
C12_ProfileInvariants ==
    (RiskProfileReturned /\ ValidProfileInput(risk_profile_call)) =>
        LET r == risk_profile_call.result.value
        IN  /\ r.floor <= r.ceiling
            /\ r.injury_score \in 0..100
            /\ r.consistency_score \in 0..1000
            /\ r.weekly_variance >= 0

\* A profile with the smallest margin: one game played in three seasons, an
\* old running back on injured reserve, perfectly consistent weeks.
C12_Witness ==
    /\ RiskProfileReturned
    /\ ValidProfileInput(risk_profile_call)
    /\ risk_profile_call.result.value.injury_score = 90
    /\ risk_profile_call.result.value.consistency_score = 1000
    /\ risk_profile_call.result.value.floor = 181200
    /\ risk_profile_call.result.value.ceiling = 181600

----------------------------------------------------------------------------
(* Specification of the schedule analyzer *)

\* The longest schedule of which every rating combination is enumerated.
MaxShortWeeks == 3

\* Defensive ranks; -1, 0 and 33 are outside 1..32.
DefRanks == -1..33

ShortSchedules == UNION {[1..k -> 1..5] : k \in 0..MaxShortWeeks}

Uniform(rating, weeks) == [week \in 1..weeks |-> rating]

\* Seasons of 16, 17 and 18 weeks: one rating throughout, and the same with
\* the rating of one week changed.
SeasonSchedules ==
    UNION {{Uniform(r, n)} \cup
           {[Uniform(r, n) EXCEPT ![week] = v] :
                week \in {1, 5, 13, 14, 16, 17, 18} \cap 1..n, v \in 1..5} :
           r \in 1..5, n \in {16, 17, 18}}

\* Ratings outside 1..5.
OutOfRangeSchedules == {Uniform(7, 2), Uniform(7, 17), Uniform(-1, 17), <<0, 5, 6>>}

Schedules == ShortSchedules \cup SeasonSchedules \cup OutOfRangeSchedules

\* The weights argument: absent, empty, and two custom tables in tenths.
WeightOptions == {None, Some(<<>>), Some(<<0, 0>>), Some(<<20, 5, 10>>)}

\* sos_overall and sos_playoffs in thousandths; -1500 and 1200 are outside [-1,1].
SosValues == {-1500, -1000, -333, 0, 120, 500, 1000, 1200}

InitSchedule ==
    /\ \/ /\ matchup_call \in [def_rank : DefRanks, is_dome : BOOLEAN, result : {Pending}]
          /\ sos_call = Idle /\ playoff_sos_call = Idle
          /\ schedule_score_call = Idle /\ adjustment_call = Idle
       \/ /\ sos_call \in [weekly_matchups : Schedules, weights : WeightOptions,
                           result : {Pending}]
          /\ matchup_call = Idle /\ playoff_sos_call = Idle
          /\ schedule_score_call = Idle /\ adjustment_call = Idle
       \/ /\ playoff_sos_call \in [weekly_matchups : Schedules, result : {Pending}]
          /\ matchup_call = Idle /\ sos_call = Idle
          /\ schedule_score_call = Idle /\ adjustment_call = Idle
       \/ /\ schedule_score_call \in [team : {"KC"}, weekly_matchups : Schedules,
                                      bye_week : {10}, dome_games : {0, 8},
                                      result : {Pending}]
          /\ matchup_call = Idle /\ sos_call = Idle
          /\ playoff_sos_call = Idle /\ adjustment_call = Idle
       \/ /\ adjustment_call \in
                 [self : {ScheduleScore("KC", o, p) : o \in SosValues, p \in SosValues},
                  result : {Pending}]
          /\ matchup_call = Idle /\ sos_call = Idle
          /\ playoff_sos_call = Idle /\ schedule_score_call = Idle
    /\ AggIdle
    /\ CalcIdle
    /\ ProfileIdle
    /\ team_call = Idle
    /\ LateIdle

\* result = matchup_rating(def_rank, is_dome)
MatchupRating ==
    /\ matchup_call # Idle
    /\ matchup_call.result = Pending
    /\ matchup_call' =
           [matchup_call EXCEPT !.result =
               Returned(matchup_rating(matchup_call.def_rank, matchup_call.is_dome))]
    /\ UNCHANGED <<agg_vars, wa_call, injury_call, consistency_call, profile_vars,
                   team_call, late_vars,
                   sos_call, playoff_sos_call, schedule_score_call, adjustment_call>>

\* result = calculate_sos(weekly_matchups, weights)
CalculateSos ==
    /\ sos_call # Idle
    /\ sos_call.result = Pending
    /\ sos_call' =
           [sos_call EXCEPT !.result =
               Returned(calculate_sos(sos_call.weekly_matchups, sos_call.weights))]
    /\ UNCHANGED <<agg_vars, wa_call, injury_call, consistency_call, profile_vars,
                   team_call, late_vars,
                   matchup_call, playoff_sos_call, schedule_score_call, adjustment_call>>

\* result = calculate_playoff_sos(weekly_matchups)
CalculatePlayoffSos ==
    /\ playoff_sos_call # Idle
    /\ playoff_sos_call.result = Pending
    /\ playoff_sos_call' =
           [playoff_sos_call EXCEPT !.result =
               Returned(calculate_playoff_sos(playoff_sos_call.weekly_matchups))]
    /\ UNCHANGED <<agg_vars, wa_call, injury_call, consistency_call, profile_vars,
                   team_call, late_vars,
                   matchup_call, sos_call, schedule_score_call, adjustment_call>>

\* score = create_schedule_score(team, weekly_matchups, bye_week, dome_games)
CreateScheduleScore ==
    /\ schedule_score_call # Idle
    /\ schedule_score_call.result = Pending
    /\ schedule_score_call' =
           [schedule_score_call EXCEPT !.result =
               Returned(create_schedule_score(schedule_score_call.team,
                                              schedule_score_call.weekly_matchups,
                                              schedule_score_call.bye_week,
                                              schedule_score_call.dome_games))]
    /\ UNCHANGED <<agg_vars, wa_call, injury_call, consistency_call, profile_vars,
                   team_call, late_vars,
                   matchup_call, sos_call, playoff_sos_call, adjustment_call>>

\* adjustment = score.get_schedule_adjustment(), on a ScheduleScore given
\* directly or on the one create_schedule_score has just returned.
GetScheduleAdjustment ==
    /\ \/ adjustment_call # Idle /\ adjustment_call.result = Pending
       \/ /\ adjustment_call = Idle
          /\ schedule_score_call # Idle
          /\ schedule_score_call.result.status = "returned"
    /\ LET self == IF adjustment_call = Idle THEN schedule_score_call.result.value
                   ELSE adjustment_call.self
       IN  adjustment_call' =
               [self |-> self, result |-> Returned(get_schedule_adjustment(self))]
    /\ UNCHANGED <<agg_vars, wa_call, injury_call, consistency_call, profile_vars,
                   team_call, late_vars,
                   matchup_call, sos_call, playoff_sos_call, schedule_score_call>>

NextSchedule ==
    \/ MatchupRating
    \/ CalculateSos
    \/ CalculatePlayoffSos
    \/ CreateScheduleScore
    \/ GetScheduleAdjustment

SpecSchedule == InitSchedule /\ [][NextSchedule]_vars

MatchupReturned == matchup_call # Idle /\ matchup_call.result.status = "returned"

SosReturned == sos_call # Idle /\ sos_call.result.status = "returned"

PlayoffSosReturned ==
    playoff_sos_call # Idle /\ playoff_sos_call.result.status = "returned"

ScheduleScoreReturned ==
    schedule_score_call # Idle /\ schedule_score_call.result.status = "returned"

AdjustmentReturned ==
    adjustment_call # Idle /\ adjustment_call.result.status = "returned"

RatingsInRange(weekly_matchups) ==
    \A week \in DOMAIN weekly_matchups : weekly_matchups[week] \in 1..5

\* The rating the claim's table gives a defensive rank in 1..32.
ClaimRating(def_rank) ==
    CASE def_rank \in 1..6 -> 5
      [] def_rank \in 7..12 -> 4
      [] def_rank \in 13..20 -> 3
      [] def_rank \in 21..26 -> 2
      [] def_rank \in 27..32 -> 1

\* C13: for every defensive rank in 1..32 matchup_rating returns 5 for rank
\* <= 6, 4 for <= 12, 3 for <= 20, 2 for <= 26 and 1 otherwise; with is_dome
\* the result is one lower than without it, except that 1 stays 1; the result
\* is always in 1..5.
C13_MatchupRatingTable ==
    (MatchupReturned /\ matchup_call.def_rank \in 1..32) =>
        LET result == matchup_call.result.value
            rated == ClaimRating(matchup_call.def_rank)
        IN  /\ ~matchup_call.is_dome => result = rated
            /\ matchup_call.is_dome =>
                   result = (IF rated = 1 THEN 1 ELSE rated - 1)
            /\ result \in 1..5

\* A dome game against one of the six weakest defenses: the rating stays 1.
C13_Witness ==
    /\ MatchupReturned
    /\ matchup_call.def_rank = 30
    /\ matchup_call.is_dome
    /\ matchup_call.result.value = 1

\* The weight the claim's table gives a week in 1..17, in tenths.
ClaimWeekWeight(week) ==
    CASE week \in 1..4 -> 8
      [] week \in 5..13 -> 10
      [] week \in 14..17 -> 15

\* C14: with the default weights calculate_sos returns the average of
\* (rating-3)/2 weighted by 0.8 (weeks 1-4), 1.0 (weeks 5-13) and 1.5 (weeks
\* 14-17), to the three decimals it rounds to; a schedule whose ratings all
\* equal r yields exactly (r-3)/2, an empty schedule yields 0.0, and every
\* result for ratings in 1..5 lies in [-1,1].
C14_SosWeightedAverage ==
    (SosReturned /\ ~Truthy(sos_call.weights)) =>
        LET m == sos_call.weekly_matchups
            result == sos_call.result.value
            total == SumOver([week \in DOMAIN m |-> ClaimWeekWeight(week)], DOMAIN m)
            sum2 == SumOver([week \in DOMAIN m |-> (m[week] - 3) * ClaimWeekWeight(week)],
                            DOMAIN m)
            diff == 2 * total * result - 1000 * sum2
        IN  /\ (RatingsInRange(m) /\ Len(m) \in 1..17) =>
                   (diff <= total /\ -diff <= total)
            /\ \A r \in 1..5 :
                   (m # <<>> /\ \A week \in DOMAIN m : m[week] = r) =>
                       result = 500 * (r - 3)
            /\ m = <<>> => result = 0
            /\ RatingsInRange(m) => (result >= -1000 /\ result <= 1000)

\* Seventeen weeks against the hardest defenses.
C14_Witness ==
    /\ SosReturned
    /\ sos_call.weights = None
    /\ sos_call.weekly_matchups = Uniform(5, 17)
    /\ sos_call.result.value = 1000

\* C15: calculate_playoff_sos returns 0.0 for every schedule shorter than 17
\* weeks; for 17 or more weeks it is the unweighted mean of (rating-3)/2 over
\* weeks 14-17, and changing the rating of any other week never changes it.
C15_PlayoffSosWeeks14To17 ==
    PlayoffSosReturned =>
        LET m == playoff_sos_call.weekly_matchups
            result == playoff_sos_call.result.value
        IN  /\ Len(m) < 17 => result = 0
            /\ (Len(m) >= 17 /\ RatingsInRange(m)) =>
                   8 * result = 1000 * (m[14] + m[15] + m[16] + m[17] - 4 * 3)
            /\ \A week \in DOMAIN m \ (14..17) : \A v \in 1..5 :
                   calculate_playoff_sos([m EXCEPT ![week] = v]) = result

\* An 18-week season of average matchups whose last week is the hardest:
\* week 18 is no playoff week.
C15_Witness ==
    /\ PlayoffSosReturned
    /\ playoff_sos_call.weekly_matchups = [Uniform(3, 18) EXCEPT ![18] = 5]
    /\ playoff_sos_call.result.value = 0

\* C16: for every ScheduleScore with sos_overall and sos_playoffs in [-1,1],
\* as is every one create_schedule_score builds from ratings in 1..5,
\* get_schedule_adjustment is -15*(0.4*sos_overall + 0.6*sos_playoffs) rounded
\* to one decimal, lies in [-15,15], is <= 0 when both SOS values are >= 0 and
\* >= 0 when both are <= 0.
C16_ScheduleAdjustment ==
    /\ (ScheduleScoreReturned /\ RatingsInRange(schedule_score_call.weekly_matchups)) =>
           /\ schedule_score_call.result.value.sos_overall \in -1000..1000
           /\ schedule_score_call.result.value.sos_playoffs \in -1000..1000
    /\ (/\ AdjustmentReturned
        /\ adjustment_call.self.sos_overall \in -1000..1000
        /\ adjustment_call.self.sos_playoffs \in -1000..1000) =>
           LET o == adjustment_call.self.sos_overall
               p == adjustment_call.self.sos_playoffs
               adjustment == adjustment_call.result.value
               exact == -(6 * o + 9 * p)
           IN  /\ adjustment % 100 = 0
               /\ adjustment - exact <= 50 /\ exact - adjustment <= 50
               /\ adjustment >= -15000 /\ adjustment <= 15000
               /\ (o >= 0 /\ p >= 0) => adjustment <= 0
               /\ (o <= 0 /\ p <= 0) => adjustment >= 0

\* The adjustment of a score built from a 17-week schedule that is hard
\* throughout and hardest in week 14.
C16_Witness ==
    /\ AdjustmentReturned
    /\ ScheduleScoreReturned
    /\ schedule_score_call.weekly_matchups = [Uniform(4, 17) EXCEPT ![14] = 5]
    /\ adjustment_call.self = schedule_score_call.result.value
    /\ adjustment_call.self.sos_overall > 500
    /\ adjustment_call.self.sos_playoffs = 625
    /\ adjustment_call.result.value < -8000

----------------------------------------------------------------------------
(* Specification of the identity normalizer *)

\* The longest team string of which every character combination is enumerated.
MaxTeamLen == 3

TeamAlphabet ==
    {"A", "C", "J", "K", "L", "R", "S", "W", "H", "X", "a", "c", "k", "l", "s", "w", " "}

ShortTeams == UNION {[1..n -> TeamAlphabet] : n \in 0..MaxTeamLen}

\* Full names, right and wrong.
FullNames ==
    {
     <<"C", "h", "i", "e", "f", "s">>,
     <<"K", "A", "N", "S", "A", "S", " ", "C", "I", "T", "Y">>,
     <<"k", "a", "n", "s", "a", "s", " ", "c", "i", "t", "y">>,
     <<"4", "9", "e", "r", "s">>,
     <<"L", ".", "A", ".", " ", "R", "a", "m", "s">>,
     <<"N", ".", "Y", ".", " ", "J", "e", "t", "s">>,
     <<"W", "a", "s", "h", "i", "n", "g", "t", "o", "n">>,
     <<"C", "o", "m", "m", "a", "n", "d", "e", "r", "s">>,
     <<"K", "a", "n", "s", "a", "s", " ", " ", "C", "i", "t", "y">>,
     <<"C", "h", "i", "e", "f">>,
     <<"N", "e", "w", " ", "Y", "o", "r", "k">>,
     <<"G", "r", "e", "e", "n", " ", "B", "a", "y">>
    }

Paddings == {<<>>, <<" ">>, <<"\t", " ">>}

TeamInputs ==
    ShortTeams \cup {l \o name \o r : l \in Paddings, name \in FullNames, r \in Paddings}

InitIdentity ==
    /\ \E team \in TeamInputs : team_call = [team |-> team, result |-> Pending]
    /\ AggIdle
    /\ CalcIdle
    /\ ProfileIdle
    /\ ScheduleIdle
    /\ LateIdle

\* result = normalize_team(team), or the exception it raises
NormalizeTeam ==
    /\ team_call # Idle
    /\ team_call.result = Pending
    /\ team_call' = [team_call EXCEPT !.result = normalize_team(team_call.team)]
    /\ UNCHANGED <<agg_vars, wa_call, injury_call, consistency_call, profile_vars,
                   schedule_vars, late_vars>>

NextIdentity == NormalizeTeam

SpecIdentity == InitIdentity /\ [][NextIdentity]_vars

TeamDone == team_call # Idle /\ team_call.result # Pending

\* The same string in another case or with whitespace around it.
Respellings(team) ==
    {<<" ">> \o team, team \o <<" ">>, <<"\t">> \o team \o <<" ", " ">>,
     Upper(team), [i \in DOMAIN team |-> LowerChar(team[i])]}

\* C17: normalize_team either returns one of the 32 canonical team codes or
\* fails with the unknown-team error; it ignores case and surrounding
\* whitespace, returns a canonical abbreviation unchanged, maps the legacy
\* aliases WAS, JAC and LA to WSH, JAX and LAR, and otherwise resolves a full
\* franchise or city name by exact lookup.
C17_NormalizeTeam ==
    TeamDone =>
        LET team == team_call.team
            result == team_call.result
            written == Join(team)
        IN  /\ \/ result.status = "returned" /\ result.value \in TEAM_ABBREVIATIONS
               \/ /\ result.status = "raised"
                  /\ result.error.type = "ValueError"
            /\ Cardinality(TEAM_ABBREVIATIONS) = 32
            /\ \A other \in Respellings(team) : normalize_team(other) = result
            /\ written \in TEAM_ABBREVIATIONS => result = Returned(written)
            /\ written = "WAS" => result = Returned("WSH")
            /\ written = "JAC" => result = Returned("JAX")
            /\ written = "LA" => result = Returned("LAR")
            /\ written \in {"CHIEFS", "KANSAS CITY"} => result = Returned("KC")
            /\ written \in {"WASHINGTON", "COMMANDERS"} => result = Returned("WSH")
            /\ written \in {"L.A. RAMS"} => result = Returned("LAR")
            /\ written \in {"", "X", "KCC", "K C", "LAS", "CHIEF", "NEW YORK", "KANSAS  CITY"}
                   => result.status = "raised"

\* A lower-case legacy alias with whitespace on both sides.
C17_Witness ==
    /\ TeamDone
    /\ team_call.team = <<" ", "l", "a">>
    /\ team_call.result = Returned("LAR")

----------------------------------------------------------------------------
(* Specification of the validator *)

\* The most records with an unknown team or position in one list.
MaxOdd == 2

\* count records of one position
RECURSIVE Block(_, _)
Block(pos, count) ==
    IF count = 0 THEN <<>>
    ELSE Append(Block(pos, count - 1),
                PlayerProjection("p" \o Str(count) \o "_" \o pos \o "_kc",
                                 "Player " \o Str(count), pos, "KC", <<>>))

\* The list with counts[pos] records of each position.
Squad(counts) ==
    Block("QB", counts.QB) \o Block("RB", counts.RB) \o Block("WR", counts.WR)
    \o Block("TE", counts.TE) \o Block("K", counts.K) \o Block("DST", counts.DST)

\* Every position at its strict minimum, at its relaxed minimum, or absent.
Levels == {MIN_COUNTS_STRICT, MIN_COUNTS_RELAXED, [k \in DOMAIN MIN_COUNTS_STRICT |-> 0]}

\* The counts of interest for a position with strict minimum v.
CountsAround(v) == {0, 1, v \div 3 - 1, v \div 3, v \div 3 + 1, v - 1, v, v + 1}

\* One position moved off a level.
CountVectors ==
    Levels \cup
    UNION {{[level EXCEPT ![pos] = c] :
                level \in Levels, c \in CountsAround(MIN_COUNTS_STRICT[pos])} :
           pos \in DOMAIN MIN_COUNTS_STRICT}

\* Records with a team or a position the validator does not know.
OddRecords ==
    <<PlayerProjection("commanders_dst_wsh", "Commanders D/ST", "DST", "WSH", <<>>),
      PlayerProjection("juszczyk_fb_sf", "Kyle Juszczyk", "FB", "SF", <<>>),
      PlayerProjection("nobody_lb_fa", "No Body", "LB", "FA", <<>>)>>

\* Up to MaxOdd of them.
OddLists ==
    {SelectSeq(OddRecords, LAMBDA r : r \in chosen) :
        chosen \in {c \in SUBSET Range(OddRecords) : Cardinality(c) <= MaxOdd}}

ValidationInputs ==
    {[projections |-> Squad(counts) \o odd, strict |-> strict, result |-> Pending] :
        counts \in CountVectors, odd \in OddLists, strict \in BOOLEAN}

InitValidate ==
    /\ validation_call \in ValidationInputs
    /\ AggIdle
    /\ CalcIdle
    /\ ProfileIdle
    /\ ScheduleIdle
    /\ team_call = Idle
    /\ PipelineIdle
    /\ ScraperIdle

\* result = validate_projections(projections, strict)
ValidateProjections ==
    /\ validation_call # Idle
    /\ validation_call.result = Pending
    /\ validation_call' =
           [validation_call EXCEPT !.result =
               Returned(validate_projections(validation_call.projections,
                                             validation_call.strict))]
    /\ UNCHANGED <<agg_vars, wa_call, injury_call, consistency_call, profile_vars,
                   schedule_vars, team_call, pipeline_vars, scraper_vars>>

NextValidate == ValidateProjections

SpecValidate == InitValidate /\ [][NextValidate]_vars

ValidationReturned ==
    validation_call # Idle /\ validation_call.result.status = "returned"

\* The number of records of a position in the list under validation.
ClaimCount(pos) ==
    Len(SelectSeq(validation_call.projections, LAMBDA proj : proj.pos = pos))

\* The strict minimums the claims name.
ClaimStrictMinimum == [QB |-> 32, RB |-> 64, WR |-> 64, TE |-> 28, K |-> 15, DST |-> 32]

\* C18: in strict mode, on a non-empty list, validate_projections returns
\* is_valid=False with an error naming position P for every position whose
\* count is below its strict minimum (32, 64, 64, 28, 15, 32), and
\* is_valid=True when no position is short; on an empty list it returns
\* is_valid=False with the error 'No projections provided' in either mode; it
\* never raises.
C18_StrictShortfallIsError ==
    (validation_call # Idle /\ validation_call.result # Pending) =>
        LET c == validation_call
            r == c.result.value
            short == {pos \in DOMAIN ClaimStrictMinimum :
                          ClaimCount(pos) < ClaimStrictMinimum[pos]}
        IN  /\ c.result.status = "returned"
            /\ (c.strict /\ c.projections # <<>>) =>
                   /\ \A pos \in short :
                          /\ ~r.is_valid
                          /\ \E i \in DOMAIN r.errors :
                                 r.errors[i] = "Insufficient " \o pos \o ": "
                                               \o Str(ClaimCount(pos)) \o " < "
                                               \o Str(ClaimStrictMinimum[pos])
                   /\ short = {} => r.is_valid
            /\ c.projections = <<>> =>
                   (~r.is_valid /\ r.errors = <<"No projections provided">>)

\* One quarterback short of the strict minimum, every other position at its
\* minimum.
C18_Witness ==
    /\ ValidationReturned
    /\ validation_call.strict
    /\ ClaimCount("QB") = 31
    /\ validation_call.result.value.is_valid = FALSE
    /\ validation_call.result.value.errors = <<"Insufficient QB: 31 < 32">>

\* The list has a low-count warning for the position.
HasLowWarning(pos) ==
    LET warnings == validation_call.result.value.warnings
    IN  \E i \in DOMAIN warnings : \E m \in 0..64 :
            warnings[i] = "Low " \o pos \o " count: " \o Str(ClaimCount(pos))
                          \o " < " \o Str(m)

\* C19: in relaxed mode validate_projections never turns a position
\* shortfall into an error (every non-empty list yields is_valid=True), and
\* it emits a low-count warning for a position exactly when the position's
\* count is below one-third of its strict minimum (count*3 < strict minimum).
C19_RelaxedThirdWarns ==
    (ValidationReturned /\ ~validation_call.strict /\ validation_call.projections # <<>>) =>
        /\ validation_call.result.value.is_valid
        /\ \A pos \in DOMAIN ClaimStrictMinimum :
               HasLowWarning(pos) <=> ClaimCount(pos) * 3 < ClaimStrictMinimum[pos]

----------------------------------------------------------------------------
(* pipeline.py: DataPipeline.run *)

\* scrapers = [ESPNScraper(), CBSScraper(), NFLScraper()], by source name.
Scrapers == <<"ESPN", "CBS", "NFL">>

\* validate_adp(adp_data) uses the default min_players.
DefaultMinPlayers == 100

\* raise ValueError(f"{source} validation failed: {result.errors}"); the
\* message is kept as its prefix and the list of errors it prints.
ValidationFailed_Unnamed(source, result) ==
    Raised([type |-> "ValueError",
            message |-> "validation failed",
            errors |-> result.errors])

ValidationFailed(source, result) ==
    Raised([type |-> "ValueError",
            message |-> source \o " validation failed",
            errors |-> result.errors])

\* if not result.is_valid
Rejected_OnWarnings(result) == ~result.is_valid \/ result.warnings # <<>>

Rejected(result) == ~result.is_valid

\* try: projections[name] = scraper.scrape(); except Exception: logged only.
StoreScraped_EmptyOnError(projections, name, outcome) ==
    Append(projections,
           [source |-> name,
            projs |-> IF outcome.status = "returned" THEN outcome.value ELSE <<>>])

StoreScraped(projections, name, outcome) ==
    IF outcome.status = "returned"
    THEN Append(projections, [source |-> name, projs |-> outcome.value])
    ELSE projections

\* os.path.join(self.output_dir, f"Projections-{YEAR}.json"), without the
\* directory and the year.
OutputPath == "Projections-YEAR.json"

----------------------------------------------------------------------------
(* Runs of DataPipeline.run *)

\* The most records in a short scraped list.
MaxSmall == 2

\* A list that passes strict validation, and one a quarterback short of it.
FullList == Squad(MIN_COUNTS_STRICT)

ShortList == Squad([MIN_COUNTS_STRICT EXCEPT !.QB = MIN_COUNTS_STRICT.QB - 1])

\* The first n players of the full list, drafted in that order.
AdpBoard(n) ==
    [i \in 1..n |-> ADPRecord(FullList[i].key, FullList[i].name, FullList[i].pos,
                              FullList[i].team, 10, i * 1000, i * 1000, i * 1000)]

ScrapeError == Raised([type |-> "ConnectionError"])

\* What a projection scraper's scrape() does in runs on little data.
SmallOutcomes ==
    {ScrapeError, Returned(<<>>)} \cup {Returned(Block("QB", n)) : n \in 1..MaxSmall}

\* What a projection scraper's scrape() does in runs on full-size data.
FullOutcomes == {ScrapeError, Returned(FullList), Returned(ShortList)}

AdpOutcomes ==
    {ScrapeError, Returned(<<>>), Returned(AdpBoard(DefaultMinPlayers - 1)),
     Returned(AdpBoard(DefaultMinPlayers))}

SourceOutcomes(outcomes, adp) ==
    {[ESPN |-> e, CBS |-> c, NFL |-> n, ADP |-> a] :
         e \in outcomes, c \in outcomes, n \in outcomes, a \in adp}

\* Runs on full-size data in which some source is a quarterback short. (A
\* strict run in which every list passes aggregates 235 records per source;
\* the runs that pass validation and go on to aggregate are those on little
\* data in relaxed mode.)
FullRuns ==
    {o \in SourceOutcomes(FullOutcomes, {Returned(AdpBoard(DefaultMinPlayers))}) :
         \E name \in Range(Scrapers) : o[name] = Returned(ShortList)}

\* run(validate, strict) with the outcome of every scrape() of the run.
PipelineRuns ==
    {[args |-> [validate |-> v, strict |-> st], outcomes |-> o] :
         v \in BOOLEAN, st \in BOOLEAN, o \in SourceOutcomes(SmallOutcomes, AdpOutcomes)}
    \cup
    {[args |-> [validate |-> TRUE, strict |-> TRUE], outcomes |-> o] : o \in FullRuns}

InitPipeline ==
    /\ \E run \in PipelineRuns :
          /\ run_args = run.args
          /\ scrape_outcomes = run.outcomes
    /\ pc = "scrape_projections"
    /\ source_index = 1
    /\ projections_by_source = <<>>
    /\ adp_data = None
    /\ risk_profiles = None
    /\ schedule_scores = None
    /\ enhanced_players = Pending
    /\ output_file = None
    /\ run_result = Pending
    /\ CalcIdle
    /\ ProfileIdle /\ ScheduleIdle /\ team_call = Idle /\ validation_call = Idle
    /\ ScraperIdle

pipeline_frame ==
    <<risk_profiles, schedule_scores, wa_call, injury_call, consistency_call,
      profile_vars, schedule_vars, team_call, validation_call, run_args, scrape_outcomes,
      scraper_vars>>

\* One iteration of the loop of _scrape_projections: projections[name] =
\* scraper.scrape(), and nothing is stored when scrape() raises.
ScrapeProjection ==
    /\ pc = "scrape_projections"
    /\ LET name == Scrapers[source_index]
       IN  projections_by_source' =
               StoreScraped(projections_by_source, name, scrape_outcomes[name])
    /\ IF source_index < Len(Scrapers)
       THEN source_index' = source_index + 1 /\ pc' = "scrape_projections"
       ELSE source_index' = 1 /\ pc' = "scrape_adp"
    /\ UNCHANGED <<adp_data, enhanced_players, output_file, run_result, pipeline_frame>>

\* adp_data = self._scrape_adp(): the scraped list, or [] when scrape()
\* raised; then `if validate:`.
ScrapeAdp ==
    /\ pc = "scrape_adp"
    /\ adp_data' = IF scrape_outcomes.ADP.status = "returned"
                   THEN scrape_outcomes.ADP.value
                   ELSE <<>>
    /\ pc' = IF run_args.validate THEN "validate" ELSE "aggregate"
    /\ UNCHANGED <<projections_by_source, source_index, enhanced_players, output_file,
                   run_result, pipeline_frame>>

\* One iteration of the loop of _validate over projections.items().
ValidateSource ==
    /\ pc = "validate"
    /\ source_index <= Len(projections_by_source)
    /\ LET entry == projections_by_source[source_index]
           result == validate_projections(entry.projs, run_args.strict)
       IN  IF Rejected(result)
           THEN /\ run_result' = ValidationFailed(entry.source, result)
                /\ pc' = "failed"
                /\ UNCHANGED source_index
           ELSE /\ source_index' = source_index + 1
                /\ UNCHANGED <<run_result, pc>>
    /\ UNCHANGED <<projections_by_source, adp_data, enhanced_players, output_file,
                   pipeline_frame>>

\* result = validate_adp(adp_data), after the loop over the sources.
ValidateAdp ==
    /\ pc = "validate"
    /\ source_index > Len(projections_by_source)
    /\ LET result == validate_adp(adp_data, DefaultMinPlayers)
       IN  IF Rejected(result)
           THEN run_result' = ValidationFailed("ADP", result) /\ pc' = "failed"
           ELSE pc' = "aggregate" /\ UNCHANGED run_result
    /\ UNCHANGED <<projections_by_source, adp_data, source_index, enhanced_players,
                   output_file, pipeline_frame>>

\* players = aggregate_projections(projections, adp_data, risk_profiles=None,
\* schedule_scores=None)
Aggregate ==
    /\ pc = "aggregate"
    /\ LET players == aggregate_projections(projections_by_source, adp_data, None, None)
       IN  /\ enhanced_players' = players
           /\ IF players.status = "raised"
              THEN run_result' = players /\ pc' = "failed"
              ELSE pc' = "export" /\ UNCHANGED run_result
    /\ UNCHANGED <<projections_by_source, adp_data, source_index, output_file,
                   pipeline_frame>>

\* export_to_json(players, output_path); return output_path
Export ==
    /\ pc = "export"
    /\ output_file' = Some(enhanced_players.value)
    /\ run_result' = Returned(OutputPath)
    /\ pc' = "done"
    /\ UNCHANGED <<projections_by_source, adp_data, source_index, enhanced_players,
                   pipeline_frame>>

NextPipeline ==
    \/ ScrapeProjection
    \/ ScrapeAdp
    \/ ValidateSource
    \/ ValidateAdp
    \/ Aggregate
    \/ Export

SpecPipeline == InitPipeline /\ [][NextPipeline]_vars

\* run has returned or raised.
RunEnded == pc \in {"done", "failed"}

\* The sources whose scrape() returned, in scraper order.
ScrapedSources == SelectSeq(Scrapers, LAMBDA name : scrape_outcomes[name].status = "returned")

\* The scraped sources whose list fails validate_projections in the run's mode.
FailingSources ==
    SelectSeq(ScrapedSources,
              LAMBDA name : ~validate_projections(scrape_outcomes[name].value,
                                                  run_args.strict).is_valid)

PassingSources ==
    SelectSeq(ScrapedSources,
              LAMBDA name : validate_projections(scrape_outcomes[name].value,
                                                 run_args.strict).is_valid)

\* The ADP list the run works on.
ScrapedAdp ==
    IF scrape_outcomes.ADP.status = "returned" THEN scrape_outcomes.ADP.value ELSE <<>>

AdpFails == ~validate_adp(ScrapedAdp, DefaultMinPlayers).is_valid

\* The sources of the records a player of the output file was built from.
SourcesOf(list) == [i \in DOMAIN list |-> list[i].source]

\* C20 as stated: when validation is enabled and the projections of one
\* source fail validate_projections, the pipeline excludes that source and
\* still aggregates and exports the remaining sources; run fails only when
\* ADP validation fails or no usable data exists at all.
C20_Original ==
    (RunEnded /\ run_args.validate) =>
        /\ (FailingSources # <<>> /\ PassingSources # <<>> /\ ~AdpFails) =>
               /\ pc = "done"
               /\ output_file # None
               /\ enhanced_players =
                      aggregate_projections(
                          [i \in DOMAIN PassingSources |->
                               [source |-> PassingSources[i],
                                projs |-> scrape_outcomes[PassingSources[i]].value]],
                          ScrapedAdp, None, None)
        /\ pc = "failed" => (AdpFails \/ PassingSources = <<>>)

\* C20: when validation is enabled and the list of any scraped source
\* fails validate_projections, run raises ValueError naming the first such
\* source in scraper order, nothing is aggregated and no output file is
\* written; run raises exactly when validation is enabled and a scraped
\* source or the ADP data fails its validation (ADP failure is named when
\* every scraped source passes); a run that returns has aggregated every
\* source whose scrape() returned, so only a raising scraper leaves a source
\* out.
C20_FailingSourceAbortsRun ==
    RunEnded =>
        /\ (run_args.validate /\ FailingSources # <<>>) =>
               /\ run_result.status = "raised"
               /\ run_result.error.type = "ValueError"
               /\ run_result.error.message = Head(FailingSources) \o " validation failed"
               /\ enhanced_players = Pending
               /\ output_file = None
        /\ (run_args.validate /\ FailingSources = <<>> /\ AdpFails) =>
               /\ run_result.status = "raised"
               /\ run_result.error.message = "ADP validation failed"
               /\ output_file = None
        /\ run_result.status = "raised" <=>
               (run_args.validate /\ (FailingSources # <<>> \/ AdpFails))
        /\ pc = "done" =>
               /\ SourcesOf(projections_by_source) = ScrapedSources
               /\ output_file = Some(enhanced_players.value)

\* Relaxed validation: ESPN scraped an empty list, CBS a list that passes and
\* the ADP data is valid, yet the run has raised on ESPN and written nothing.
C20_Witness ==
    /\ pc = "failed"
    /\ run_args.validate /\ ~run_args.strict
    /\ scrape_outcomes.ESPN = Returned(<<>>)
    /\ scrape_outcomes.CBS = Returned(Block("QB", 1))
    /\ ~AdpFails
    /\ run_result.status = "raised"
    /\ run_result.error.message = "ESPN validation failed"
    /\ output_file = None

\* Every scraped source and the ADP data pass validation in the run's mode.
AllValid == FailingSources = <<>> /\ ~AdpFails

\* The validation step the run is about to make finds an invalid result.
AboutToReject ==
    /\ pc = "validate"
    /\ IF source_index <= Len(projections_by_source)
       THEN ~validate_projections(projections_by_source[source_index].projs,
                                  run_args.strict).is_valid
       ELSE ~validate_adp(adp_data, DefaultMinPlayers).is_valid

\* The source (or ADP) the validation step is looking at.
UnderValidation ==
    IF source_index <= Len(projections_by_source)
    THEN projections_by_source[source_index].source
    ELSE "ADP"

\* What C21 requires of one step of a run.
ValidationGatesStep ==
    /\ (run_args.validate /\ AboutToReject) =>
           (/\ pc' = "failed"
            /\ run_result' = Raised([type |-> "ValueError",
                                     message |-> UnderValidation \o " validation failed",
                                     errors |-> run_result'.error.errors])
            /\ enhanced_players' = Pending
            /\ output_file' = None)
    /\ (pc = "failed") =>
           (enhanced_players' = enhanced_players /\ output_file' = output_file)
    /\ (run_args.validate /\ enhanced_players' # enhanced_players) =>
           (AllValid /\ source_index > Len(projections_by_source))
    /\ (run_args.validate /\ output_file' # output_file) =>
           (AllValid /\ enhanced_players.status = "returned")

\* C21: with validate=True, run raises ValueError naming the source (or
\* ADP) in the very step that finds an invalid validation result, and from
\* then on neither aggregates nor exports; aggregation starts and the output
\* file is written only in runs in which every scraped source and the ADP
\* data have passed validation.
C21_ExportOnlyAfterValidation == [][ValidationGatesStep]_vars

\* Strict validation: ESPN's full list passed, the ADP list of 99 players did
\* not; the run raised on ADP before aggregating or exporting.
C21_Witness ==
    /\ pc = "failed"
    /\ run_args.validate
    /\ FailingSources = <<>>
    /\ ScrapedSources # <<>>
    /\ AdpFails
    /\ run_result.status = "raised"
    /\ run_result.error.message = "ADP validation failed"
    /\ enhanced_players = Pending
    /\ output_file = None

\* The scrapers the loop of _scrape_projections has run so far.
ScrapersRun ==
    IF pc = "scrape_projections" THEN SubSeq(Scrapers, 1, source_index - 1) ELSE Scrapers

SomeScraperRaised == \E name \in Range(Scrapers) : scrape_outcomes[name].status = "raised"

\* The map of the sources whose scrape() returned.
PartialMap ==
    [i \in DOMAIN ScrapedSources |->
         [source |-> ScrapedSources[i], projs |-> scrape_outcomes[ScrapedSources[i]].value]]

\* C22: a projection scraper whose scrape() raises leaves no entry, every
\* scraper is still run in the order ESPN, CBS, NFL, and the run is not
\* aborted by that failure: the run raises nothing while it scrapes, it
\* never ends with the scraper's exception, and unless validation rejects
\* the data it aggregates and exports the partial source map.
C22_ScraperFailureTolerated ==
    /\ projections_by_source =
           SelectSeq(PartialMap, LAMBDA entry : entry.source \in Range(ScrapersRun))
    /\ ~RunEnded => run_result = Pending
    /\ run_result.status = "raised" =>
           (run_result.error.type = "ValueError" /\ run_args.validate /\ ~AllValid)
    /\ (RunEnded /\ SomeScraperRaised /\ (run_args.validate => AllValid)) =>
           /\ pc = "done"
           /\ run_result = Returned(OutputPath)
           /\ enhanced_players = aggregate_projections(PartialMap, ScrapedAdp, None, None)
           /\ output_file = Some(enhanced_players.value)

\* ESPN raised, CBS and NFL returned; the run went on, validated, aggregated
\* and exported the one player of the two remaining sources.
C22_Witness ==
    /\ pc = "done"
    /\ run_args.validate
    /\ scrape_outcomes.ESPN.status = "raised"
    /\ SourcesOf(projections_by_source) = <<"CBS", "NFL">>
    /\ output_file # None
    /\ Len(output_file[1]) = 1
    /\ run_result = Returned(OutputPath)

----------------------------------------------------------------------------
(* The three adapters on the defense of one team *)

\* What the href of a CBS team link holds: a code, in either case, or a
\* legacy code.
CbsParts ==
    {CodeChars[code] : code \in TEAM_ABBREVIATIONS}
    \cup {LowerStr(CodeChars[code]) : code \in TEAM_ABBREVIATIONS}
    \cup {<<"W", "A", "S">>, <<"J", "A", "C">>, <<"L", "A">>}

\* The team name ESPN and NFL.com display and the code CBS links, of one team.
DstInputs ==
    {in \in [team_name : TEAM_NAMES, part : CbsParts] :
         normalize_team(in.part) = Returned(TEAM_NAME_TO_ABBR[Join(Upper(in.team_name))])}

InitKey ==
    /\ \E in \in DstInputs :
          key_call = [team_name |-> in.team_name, part |-> in.part,
                      keys |-> [source \in Range(Scrapers) |-> Pending],
                      groups |-> Pending]
    /\ adp_pages = Idle
    /\ ScrapeIdle
    /\ validation_call = Idle
    /\ PipelineIdle
    /\ AggIdle
    /\ CalcIdle
    /\ ProfileIdle
    /\ ScheduleIdle
    /\ team_call = Idle

key_frame ==
    <<agg_vars, wa_call, injury_call, consistency_call, profile_vars, schedule_vars,
      team_call, validation_call, pipeline_vars, adp_pages, scrape_vars>>

\* ESPN shows the row "<Team> D/ST".
EspnDstKey ==
    /\ key_call # Idle
    /\ key_call.keys.ESPN = Pending
    /\ key_call' = [key_call EXCEPT !.keys.ESPN =
           Returned(espn_dst_key(key_call.team_name \o <<" ", "D", "/", "S", "T">>))]
    /\ UNCHANGED key_frame

\* CBS links the team page of the row.
CbsDstKey ==
    /\ key_call # Idle
    /\ key_call.keys.CBS = Pending
    /\ key_call' = [key_call EXCEPT !.keys.CBS = Returned(cbs_dst_key(key_call.part))]
    /\ UNCHANGED key_frame

\* NFL.com shows the row "<Team> Defense".
NflDstKey ==
    /\ key_call # Idle
    /\ key_call.keys.NFL = Pending
    /\ key_call' = [key_call EXCEPT !.keys.NFL =
           Returned(nfl_dst_key(key_call.team_name
                                \o <<" ", "D", "e", "f", "e", "n", "s", "e">>))]
    /\ UNCHANGED key_frame

\* The records of the three sources under the keys derived, as the Aggregator
\* groups them.
DstGroups(keys) ==
    GroupPairs(FlattenSources(
        [i \in DOMAIN Scrapers |->
            [source |-> Scrapers[i],
             projs |-> IF keys[Scrapers[i]].value = None THEN <<>>
                       ELSE <<PlayerProjection(keys[Scrapers[i]].value[1], "D/ST", "DST",
                                               "", <<>>)>>]]), <<>>)

\* player_projections of aggregate_projections on the three records.
GroupDstRecords ==
    /\ key_call # Idle
    /\ \A source \in Range(Scrapers) : key_call.keys[source] # Pending
    /\ key_call.groups = Pending
    /\ key_call' = [key_call EXCEPT !.groups = Returned(DstGroups(key_call.keys))]
    /\ UNCHANGED key_frame

NextKey ==
    \/ EspnDstKey
    \/ CbsDstKey
    \/ NflDstKey
    \/ GroupDstRecords

SpecKey == InitKey /\ [][NextKey]_vars

\* C23: for the same team, the keys that the ESPN adapter ('<Team> D/ST'),
\* the CBS adapter ('<ABBR> D/ST') and the NFL adapter ('<Team> Defense')
\* derive with create_player_key are equal, and the three records collapse
\* into one group in the Aggregator.
C23_DstKeysAgree ==
    (key_call # Idle /\ \A source \in Range(Scrapers) : key_call.keys[source] # Pending) =>
        /\ \A source \in Range(Scrapers) : key_call.keys[source].value # None
        /\ key_call.keys.ESPN = key_call.keys.CBS
        /\ key_call.keys.CBS = key_call.keys.NFL
        /\ key_call.groups # Pending => Len(key_call.groups.value) = 1

----------------------------------------------------------------------------
(* The order of the sources: aggregate_projections, and weighted_average in
   binary floating point *)

\* Values in thousandths; with the weights of ESPN, CBS and NFL the average
\* of <<1, 5, 10>> is 0.005 and that of <<85241, 50259, 2063>> is 48.935.
OrderValues == {1, 5, 10, 2063, 50259, 85241}

\* The (value, weight) pairs of one stat field as ESPN, CBS and NFL report it.
OrderLists ==
    UNION {{[i \in 1..k |-> <<vs[i], SourceWeight(Scrapers[i])>>] : vs \in [1..k -> OrderValues]}
               : k \in 1..Len(Scrapers)}

OrdersOf(n) == {f \in [1..n -> 1..n] : \A i, j \in 1..n : f[i] = f[j] => i = j}

\* Floating-point addition and multiplication commute, so the sums of two
\* orders agree when the orders add the same pair last (and always for
\* fewer than three pairs).
LastAdded(order) == IF Len(order) >= 3 THEN order[Len(order)] ELSE 0

InitOrder ==
    \/ InitAgg
    \/ /\ \E values \in OrderLists : \E order \in OrdersOf(Len(values)) :
              \E tie_up \in [{LastAdded(order), LastAdded([i \in DOMAIN values |-> i])}
                                 -> BOOLEAN] :
                  wa_call = [values |-> values, order |-> order, tie_up |-> tie_up,
                             result |-> Pending, permuted_result |-> Pending]
       /\ projections_by_source = <<>>
       /\ adp_data = <<>>
       /\ risk_profiles = None
       /\ schedule_scores = None
       /\ enhanced_players = Idle
       /\ injury_call = Idle
       /\ consistency_call = Idle
       /\ ExtIdle

\* weighted_average(values) with the sources in the order listed
WeightedAverageListed ==
    /\ wa_call # Idle
    /\ wa_call.result = Pending
    /\ wa_call' = [wa_call EXCEPT !.result =
           Returned(weighted_average_float(
                        wa_call.values,
                        wa_call.tie_up[LastAdded([i \in DOMAIN wa_call.values |-> i])]))]
    /\ UNCHANGED <<agg_vars, injury_call, consistency_call, ext_vars>>

\* weighted_average(values) with the sources in the other order
WeightedAveragePermuted ==
    /\ wa_call # Idle
    /\ wa_call.permuted_result = Pending
    /\ wa_call' = [wa_call EXCEPT !.permuted_result =
           Returned(weighted_average_float(
                        [i \in DOMAIN wa_call.values |-> wa_call.values[wa_call.order[i]]],
                        wa_call.tie_up[LastAdded(wa_call.order)]))]
    /\ UNCHANGED <<agg_vars, injury_call, consistency_call, ext_vars>>

NextOrder ==
    \/ AggregateProjections
    \/ WeightedAverageListed
    \/ WeightedAveragePermuted

SpecOrder == InitOrder /\ [][NextOrder]_vars

BothOrdersReturned ==
    /\ wa_call # Idle
    /\ wa_call.result.status = "returned"
    /\ wa_call.permuted_result.status = "returned"

----------------------------------------------------------------------------
(* scrapers: scrape() of ESPNScraper, CBSScraper, NFLScraper and
   FantasyProsScraper *)

\* POSITIONS of cbs.py: one page per position.
CBS_POSITIONS == <<"QB", "RB", "WR", "TE", "DST", "K">>

\* PAGES of nfl.py, by the position parameter of the URL.
NFL_PAGES == <<"O", "K", "DEF">>

\* URLS of fantasypros.py, in the order of the dict.
URLS == <<"std", "half_ppr", "ppr">>

ProjectionScrapers == Range(Scrapers)

AllScrapers == ProjectionScrapers \cup {"FantasyPros"}

\* if key not in adp_by_key: the positions of the key's entry.
AdpIndexOf(adp_by_key, key) == {i \in DOMAIN adp_by_key : adp_by_key[i].key = key}

\* adp_by_key[key] = {...}: the entry of a key seen for the first time.
NewAdpEntry(player_data) ==
    ADPRecord(player_data.key, player_data.name, player_data.pos, player_data.team,
              player_data.bye, 0, 0, 0)

\* for player_data in format_data: ... adp_by_key[key][format_key] = adp.
\* adp_by_key is the sequence of its values in insertion order: a key seen
\* for the first time is appended with the fields of its first row, and the
\* format's field of a key holds the ADP of its last row on the page.
MergeFormat(adp_by_key, format_key, format_data) ==
    LET first_rows ==
            SelectSeq([i \in DOMAIN format_data |-> i],
                      LAMBDA i : /\ AdpIndexOf(adp_by_key, format_data[i].key) = {}
                                 /\ \A j \in 1..(i - 1) :
                                        format_data[j].key # format_data[i].key)
        with_entries ==
            adp_by_key \o [k \in DOMAIN first_rows |-> NewAdpEntry(format_data[first_rows[k]])]
        RowsOf(key) == {i \in DOMAIN format_data : format_data[i].key = key}
        LastRow(key) == CHOOSE i \in RowsOf(key) : \A j \in RowsOf(key) : j <= i
    IN  [k \in DOMAIN with_entries |->
            IF RowsOf(with_entries[k].key) = {} THEN with_entries[k]
            ELSE [with_entries[k] EXCEPT
                      ![format_key] = format_data[LastRow(with_entries[k].key)].adp]]

\* projections.extend(page_projections), or the merge of one ADP page.
Accumulate(name, acc, index, page) ==
    IF name = "FantasyPros" THEN MergeFormat(acc, URLS[index], page) ELSE acc \o page

\* if attempt == self.config.retry_count - 1: raise
Reraises_Always(at, retry_count) == TRUE

Reraises(at, retry_count) == at = retry_count - 1

\* The value of the return statement after the retry loop.
AfterLoop(name, acc) == IF name = "FantasyPros" THEN <<>> ELSE acc

MaxRetry == 3

MaxPages == 2

MaxPageRecs == 2

\* The j-th player listed on page i of a projection site.
ProjectionRow(page, j) == [key |-> <<page, j>>]

\* The j-th player of an ADP page of FantasyPros.
AdpRow(format_key, j) ==
    [key |-> <<"adp", j>>, name |-> <<"adp", j>>, pos |-> "RB", team |-> "CIN", bye |-> 10,
     adp |-> 1000 * j + (CHOOSE k \in DOMAIN URLS : URLS[k] = format_key)]

\* What the site serves: every page lists n players, each player once.
SitePages(name, pages, n) ==
    IF name = "FantasyPros"
    THEN [i \in DOMAIN URLS |-> [j \in 1..n |-> AdpRow(URLS[i], j)]]
    ELSE [i \in 1..pages |-> [j \in 1..n |-> ProjectionRow(i, j)]]

\* The number of pages scrape() visits.
PageCounts(name) ==
    CASE name = "ESPN" -> 1..MaxPages
      [] name = "CBS" -> {Len(CBS_POSITIONS)}
      [] name = "NFL" -> {Len(NFL_PAGES)}
      [] name = "FantasyPros" -> {Len(URLS)}

InitScrape ==
    /\ \E name \in AllScrapers : \E retry_count \in 0..MaxRetry :
          \E pages \in PageCounts(name) : \E n \in 0..MaxPageRecs :
              scraper = [name |-> name, retry_count |-> retry_count,
                         pages |-> SitePages(name, pages, n)]
    /\ attempt = 0
    /\ scrape_pc = "for"
    /\ page_index = 0
    /\ driver = None
    /\ open_drivers = {}
    /\ scraped = <<>>
    /\ attempt_log = <<>>
    /\ scrape_result = Pending
    /\ key_call = Idle
    /\ adp_pages = Idle
    /\ validation_call = Idle
    /\ PipelineIdle
    /\ AggIdle
    /\ CalcIdle
    /\ ProfileIdle
    /\ ScheduleIdle
    /\ team_call = Idle

scrape_frame ==
    <<agg_vars, wa_call, injury_call, consistency_call, profile_vars, schedule_vars,
      team_call, validation_call, pipeline_vars, key_call, adp_pages>>

\* for attempt in range(self.config.retry_count): ... return projections
ForAttempt ==
    /\ scrape_pc = "for"
    /\ IF attempt < scraper.retry_count
       THEN /\ scrape_pc' = "create"
            /\ UNCHANGED scrape_result
       ELSE /\ scrape_pc' = "done"
            /\ scrape_result' = Returned(AfterLoop(scraper.name, scraped))
    /\ UNCHANGED <<scraper, attempt, page_index, driver, open_drivers, scraped, attempt_log>>
    /\ UNCHANGED scrape_frame

\* self._driver = self._create_driver(): webdriver.Chrome(options) starts a
\* browser or raises; driver.set_page_load_timeout then raises or not, and
\* only a driver that _create_driver returned is stored in self._driver.
CreateDriver ==
    /\ scrape_pc = "create"
    /\ \E outcome \in {"returned", "chrome_raised", "timeout_raised"} :
          /\ open_drivers' = IF outcome = "chrome_raised" THEN open_drivers
                             ELSE open_drivers \cup {attempt + 1}
          /\ driver' = IF outcome = "returned" THEN Some(attempt + 1) ELSE driver
          /\ scrape_pc' = IF outcome = "returned" THEN "pages" ELSE "except"
          /\ page_index' = IF outcome = "returned" THEN 1 ELSE page_index
    /\ UNCHANGED <<scraper, attempt, scraped, attempt_log, scrape_result>>
    /\ UNCHANGED scrape_frame

\* One page: load, wait, parse and accumulate, or an exception on the way.
ScrapePage ==
    /\ scrape_pc = "pages"
    /\ page_index <= Len(scraper.pages)
    /\ \E parsed \in BOOLEAN :
          IF parsed
          THEN /\ scraped' = Accumulate(scraper.name, scraped, page_index,
                                        scraper.pages[page_index])
               /\ page_index' = page_index + 1
               /\ UNCHANGED scrape_pc
          ELSE /\ scrape_pc' = "except"
               /\ UNCHANGED <<scraped, page_index>>
    /\ UNCHANGED <<scraper, attempt, driver, open_drivers, attempt_log, scrape_result>>
    /\ UNCHANGED scrape_frame

\* return projections (return result), inside the try block
ReturnScraped ==
    /\ scrape_pc = "pages"
    /\ page_index > Len(scraper.pages)
    /\ attempt_log' = Append(attempt_log, "completed")
    /\ scrape_pc' = "finally"
    /\ UNCHANGED <<scraper, attempt, page_index, driver, open_drivers, scraped, scrape_result>>
    /\ UNCHANGED scrape_frame

\* except Exception as e
ExceptHandler ==
    /\ scrape_pc = "except"
    /\ attempt_log' = Append(attempt_log, "failed")
    /\ scrape_pc' = "finally"
    /\ UNCHANGED <<scraper, attempt, page_index, driver, open_drivers, scraped, scrape_result>>
    /\ UNCHANGED scrape_frame

\* finally: if self._driver: self._driver.quit(); self._driver = None, and
\* then the pending return, the pending raise or the next attempt.
FinallyQuit ==
    /\ scrape_pc = "finally"
    /\ open_drivers' = IF driver # None THEN open_drivers \ {driver[1]} ELSE open_drivers
    /\ driver' = None
    /\ IF attempt_log[Len(attempt_log)] = "completed"
       THEN /\ scrape_result' = Returned(scraped)
            /\ scrape_pc' = "done"
            /\ UNCHANGED attempt
       ELSE IF Reraises(attempt, scraper.retry_count)
       THEN /\ scrape_result' = Raised([attempt |-> attempt + 1])
            /\ scrape_pc' = "done"
            /\ UNCHANGED attempt
       ELSE /\ attempt' = attempt + 1
            /\ scrape_pc' = "for"
            /\ UNCHANGED scrape_result
    /\ UNCHANGED <<scraper, page_index, scraped, attempt_log>>
    /\ UNCHANGED scrape_frame

NextScrape ==
    \/ ForAttempt
    \/ CreateDriver
    \/ ScrapePage
    \/ ReturnScraped
    \/ ExceptHandler
    \/ FinallyQuit

SpecScrape == InitScrape /\ [][NextScrape]_vars

ScrapeExited == scraper # Idle /\ scrape_pc = "done"

ScrapedKeys(records) == {records[i].key : i \in DOMAIN records}

\* C25: the list scrape() of a projection scraper returns holds one
\* record per key, also when an attempt failed after parsing pages and a
\* later attempt completed.
C25_OneRecordPerKey ==
    (ScrapeExited /\ scraper.name \in ProjectionScrapers
                  /\ scrape_result.status = "returned") =>
        Cardinality(ScrapedKeys(scrape_result.value)) = Len(scrape_result.value)

FailedAttempts == {i \in DOMAIN attempt_log : attempt_log[i] = "failed"}

\* C26: scrape() makes at most retry_count attempts; an attempt that
\* completes is the last one and scrape() returns what it returned; a failed
\* attempt before the last one ends neither the call nor the loop; scrape()
\* raises only once retry_count attempts have failed, and then the
\* exception of the last one. (With retry_count = 0 no attempt is made and
\* the empty list is returned.)
C26_RetryLoop ==
    scraper # Idle =>
        /\ Len(attempt_log) <= scraper.retry_count
        /\ attempt <= scraper.retry_count
        /\ \A i \in DOMAIN attempt_log : attempt_log[i] = "completed" =>
               /\ i = Len(attempt_log)
               /\ scrape_pc \in {"finally", "done"}
        /\ (scrape_pc = "done") = (scrape_result # Pending)
        /\ scrape_result.status = "returned" =>
               \/ /\ attempt_log # <<>>
                  /\ attempt_log[Len(attempt_log)] = "completed"
                  /\ scrape_result.value = scraped
               \/ /\ scraper.retry_count = 0
                  /\ attempt_log = <<>>
                  /\ scrape_result.value = <<>>
        /\ scrape_result.status = "raised" =>
               /\ Len(attempt_log) = scraper.retry_count
               /\ FailedAttempts = DOMAIN attempt_log
               /\ scrape_result.error = [attempt |-> scraper.retry_count]
        /\ (FailedAttempts = DOMAIN attempt_log /\ Len(attempt_log) < scraper.retry_count) =>
               scrape_result = Pending

\* Two attempts failed and were swallowed, the third completed.
C26_Witness ==
    /\ ScrapeExited
    /\ scraper.retry_count = 3
    /\ attempt_log = <<"failed", "failed", "completed">>
    /\ scrape_result.status = "returned"

\* C27: at most one browser is open at a time; none is open when an
\* attempt begins or once scrape() has exited, and self._driver is None
\* once scrape() has exited.
C27_OneDriverAtATime ==
    scraper # Idle =>
        /\ Cardinality(open_drivers) <= 1
        /\ scrape_pc \in {"for", "create", "done"} => open_drivers = {}
        /\ scrape_pc = "done" => driver = None

----------------------------------------------------------------------------
(* A scraped row through normalize_team and validate_projections *)

\* ESPNScraper._parse_player on a regular row: the record of a quarterback
\* whose team text normalize_team resolved to team.
ParsedPlayer(team) ==
    LET name == <<"S", "a", "m", " ", "H", "o", "w", "e", "l", "l">>
    IN  PlayerProjection(create_player_key(name, <<"Q", "B">>, CodeChars[team]),
                         Join(name), "QB", team, <<>>)

\* The row is parsed and the list holding its record is handed to
\* validate_projections (relaxed, as the pipeline calls it by default).
ParsePlayer ==
    /\ team_call # Idle
    /\ team_call.result # Pending
    /\ team_call.result.status = "returned"
    /\ validation_call = Idle
    /\ validation_call' = [projections |-> <<ParsedPlayer(team_call.result.value)>>,
                           strict |-> FALSE, result |-> Pending]
    /\ UNCHANGED <<agg_vars, wa_call, injury_call, consistency_call, profile_vars,
                   schedule_vars, team_call, pipeline_vars, scraper_vars>>

NextTeams ==
    \/ NormalizeTeam
    \/ ParsePlayer
    \/ ValidateProjections

SpecTeams == InitIdentity /\ [][NextTeams]_vars

UnknownTeamsWarnings == {"Unknown teams: " \o code : code \in TEAM_ABBREVIATIONS \cup VALID_TEAMS}

\* C28: every team code normalize_team returns is a team code
\* validate_projections accepts as valid, so the record of a team that
\* normalize_team produced never draws an 'Unknown teams' warning.
C28_NormalizedTeamsAccepted ==
    (team_call # Idle /\ ValidationReturned) =>
        /\ team_call.result.value \in VALID_TEAMS
        /\ \A i \in DOMAIN validation_call.result.value.warnings :
               validation_call.result.value.warnings[i] \notin UnknownTeamsWarnings

----------------------------------------------------------------------------
(* ADP scraping, ADP validation and aggregation in sequence *)

\* The row of the i-th player of the full list on the ADP page of a format,
\* as _parse_adp_page returns it.
BoardRow(i, adp) ==
    [key |-> FullList[i].key, name |-> FullList[i].name, pos |-> FullList[i].pos,
     team |-> FullList[i].team, bye |-> 10, adp |-> adp]

\* A page listing the first n players in draft order and, when `late`, one
\* more player behind them.
BoardPage(n, late) ==
    [i \in 1..(n + (IF late THEN 1 ELSE 0)) |-> BoardRow(i, 1000 * i)]

\* The three pages: the player behind the first n is on the pages late_on.
BoardPages(n, late_on) == [k \in DOMAIN URLS |-> BoardPage(n, URLS[k] \in late_on)]

\* The ESPN projections of the chosen players of the full list.
BoardProjections(chosen) ==
    <<[source |-> "ESPN",
       projs |-> SelectSeq([i \in 1..(DefaultMinPlayers + 1) |-> FullList[i]],
                           LAMBDA proj : \E i \in chosen : proj = FullList[i])]>>

AdpInputs ==
    {[pages |-> BoardPages(n, late_on), projections |-> BoardProjections(chosen),
      merged |-> Pending, validation |-> Pending, output |-> Pending] :
        n \in {DefaultMinPlayers - 1, DefaultMinPlayers},
        late_on \in SUBSET Range(URLS),
        chosen \in SUBSET {1, 2, DefaultMinPlayers, DefaultMinPlayers + 1}}

RECURSIVE MergePages(_, _, _)
\* for format_key, url in URLS.items(): ... merge format data
MergePages(adp_by_key, pages, k) ==
    IF k > Len(URLS) THEN adp_by_key
    ELSE MergePages(MergeFormat(adp_by_key, URLS[k], pages[k]), pages, k + 1)

InitAdp ==
    /\ adp_pages \in AdpInputs
    /\ key_call = Idle
    /\ ScrapeIdle
    /\ validation_call = Idle
    /\ PipelineIdle
    /\ AggIdle
    /\ CalcIdle
    /\ ProfileIdle
    /\ ScheduleIdle
    /\ team_call = Idle

adp_frame ==
    <<agg_vars, wa_call, injury_call, consistency_call, profile_vars, schedule_vars,
      team_call, validation_call, pipeline_vars, key_call, scrape_vars>>

\* FantasyProsScraper.scrape(), an attempt that completes
ScrapeAdpPages ==
    /\ adp_pages # Idle
    /\ adp_pages.merged = Pending
    /\ adp_pages' = [adp_pages EXCEPT !.merged =
                         Returned(MergePages(<<>>, adp_pages.pages, 1))]
    /\ UNCHANGED adp_frame

\* validate_adp(adp_data, min_players)
ValidateAdpData ==
    /\ adp_pages # Idle
    /\ adp_pages.merged # Pending
    /\ adp_pages.validation = Pending
    /\ adp_pages' = [adp_pages EXCEPT !.validation =
                         Returned(validate_adp(adp_pages.merged.value, DefaultMinPlayers))]
    /\ UNCHANGED adp_frame

\* if not adp_result.is_valid: raise ValueError("ADP validation failed")
RejectAdpData ==
    /\ adp_pages # Idle
    /\ adp_pages.validation # Pending
    /\ ~adp_pages.validation.value.is_valid
    /\ adp_pages.output = Pending
    /\ adp_pages' = [adp_pages EXCEPT !.output =
                         Raised([type |-> "ValueError", message |-> "ADP validation failed"])]
    /\ UNCHANGED adp_frame

\* aggregate_projections(projections, adp_data)
AggregateAdpData ==
    /\ adp_pages # Idle
    /\ adp_pages.validation # Pending
    /\ adp_pages.validation.value.is_valid
    /\ adp_pages.output = Pending
    /\ adp_pages' = [adp_pages EXCEPT !.output =
                         aggregate_projections(adp_pages.projections,
                                               adp_pages.merged.value, None, None)]
    /\ UNCHANGED adp_frame

NextAdp ==
    \/ ScrapeAdpPages
    \/ ValidateAdpData
    \/ RejectAdpData
    \/ AggregateAdpData

SpecAdp == InitAdp /\ [][NextAdp]_vars

\* C29: in the list that ADP scraping, ADP validation and aggregation
\* produce, no player whose standard ADP is the 0.0 placeholder stands ahead
\* of a player with a positive standard ADP.
C29_PlaceholderNotAhead ==
    (adp_pages # Idle /\ adp_pages.output.status = "returned") =>
        LET players == adp_pages.output.value
        IN  \A i, j \in DOMAIN players :
                (i < j /\ players[i].adp_std = 0) => players[j].adp_std <= 0

====
